---- MODULE Spec2Model ----
(***************************************************************************)
(* Adaptive Streaming Control Subsystem of glowboxremote.                  *)
(*                                                                         *)
(*   rist/rist_manager.py         RISTManager: configure/start/stop/status *)
(*   rist/adaptive_controller.py  AdaptiveController: the control loop     *)
(*                                                                         *)
(* Optional values (Python None) are sequences of length 0 or 1, so that   *)
(* "x is None" is x = None and the value of a set x is x[1].               *)
(* Bitrates are bits per second, as in the source.  Packet loss is kept in *)
(* hundredths of a percent, so that             the float comparisons of   *)
(* the source are integer comparisons here; the fractions bitrate_step_down*)
(* and bitrate_step_up are kept in percent.  int(b * (1 - 0.15)) and       *)
(* int(b * (1 + 0.10)) of the source equal (b*85) \div 100 and             *)
(* (b*110) \div 100 for every b in 1..11000000 (checked by running the     *)
(* Python expressions), which covers every bitrate of this model.          *)
(***************************************************************************)
EXTENDS Integers, Sequences, FiniteSets, TLC

VARIABLES
    \* ---- RISTManager (rist_manager.py:106-134)
    rist_config,      \* Optional RISTConfig: None or <<RISTConfig>>
    video_config,     \* Optional VideoConfig: None or <<VideoConfig>>
    audio_config,     \* Optional AudioConfig: None or <<[bitrate |-> n]>>
    process,          \* self.process with the state of the OS process behind it:
                      \* "None" | "alive" | "exited" (not yet reaped) | "reaped"
    is_streaming,     \* self.is_streaming
    last_error,       \* Optional str
    monitor_thread,   \* "None" | "alive" | "dead"
    stop_monitoring,  \* threading.Event
    ret,              \* the last call: [op, val, env], env being what the
                      \* environment did during it (process launch, file access)
    \* ---- AdaptiveController (adaptive_controller.py:105-139)
    config,           \* AdaptiveConfig
    state,            \* AdaptiveState
    has_monitor,      \* self.modem_monitor is not None
    control_thread,   \* "None" | "alive"
    stop_event,       \* threading.Event
    config_dirty,     \* self._config_dirty
    last_config_save, \* self._last_config_save
    store,            \* the JSON document at config_path: None or <<document>>
    now,              \* time.time(), seconds
    ticks,            \* number of control-loop iterations run so far
    inputs,           \* what the last iteration was handed: [stats, reports]
    sampled,          \* AdaptiveState as the last iteration's policies met it
                      \* (after _update_rist_stats and _update_modem_stats)
    pushes,           \* the calls of _apply_video_bitrate and _apply_link_config
                      \* made by the last iteration, in order, with their outcome
    \* ---- threads calling into the RISTManager
    pc,               \* where each thread stands inside start / stop /
                      \* update_bitrate ("idle": in no call)
    orphans,          \* pipeline processes launched by start() that are still
                      \* running and that self.process no longer refers to
    signals,          \* the signals the stop() under way, or the last one, has
                      \* sent to the process group, in order
    waited,           \* seconds that stop() has spent in process.wait(timeout)
    \* ---- the threads running AdaptiveController._control_loop
    loops,            \* how many of them are alive: [wait |-> between two
                      \* iterations, body |-> inside the try block]
    state_callback,   \* a state callback was handed to the constructor
    callbacks,        \* calls of the state callback made by the last iteration
    \* ---- objects that the caller and a component both refer to
    handed_in,        \* the RISTConfig and VideoConfig objects the caller passed
                      \* to the last configure(): [rist, video]
    handed_out,       \* the AdaptiveState object the caller was handed by
                      \* get_state() or through the state callback
    \* ---- threads running RISTManager._monitor_stderr
    old_monitors      \* how many of them are still running that
                      \* self.monitor_thread no longer refers to

mgrVars == <<rist_config, video_config, audio_config, process, is_streaming,
             last_error, monitor_thread, stop_monitoring>>
ctlVars == <<config, state, has_monitor, control_thread, stop_event,
             config_dirty, last_config_save, store, now, ticks, inputs,
             sampled, pushes>>
stopVars == <<signals, waited>>
aliasVars == <<handed_in, handed_out>>
loopVars == <<loops, state_callback, callbacks, aliasVars, old_monitors>>
thrVars == <<pc, orphans, stopVars, loopVars>>
vars == <<mgrVars, ret, ctlVars, thrVars>>

None == <<>>
Some(x) == <<x>>

Max(a, b) == IF a >= b THEN a ELSE b
Min(a, b) == IF a <= b THEN a ELSE b

\* the threads that call into the RISTManager: the API caller's and the
\* adaptive controller's
Threads == {"caller", "controller"}

----------------------------------------------------------------------------
(* Bounds of the model *)

\* longest link list handed to configure()
MaxLinks == 2
\* control-loop iterations explored
MaxTicks == 3
\* time.time() when the controller is constructed (any value far from 0)
Epoch == 1000
\* unreferenced running pipeline processes counted
MaxOrphans == 2
\* control-loop threads alive at once
MaxLoops == 2

----------------------------------------------------------------------------
(* Data model, rist_manager.py:49-97 *)

\* RISTLink
RISTLink(address, port, enabled, weight) ==
    [address |-> address, port |-> port, enabled |-> enabled, weight |-> weight]

\* the link with address a, on its own port, with the default weight
Link(a, e) == RISTLink(a, 5000 + a, e, 100)

\* RISTConfig(links=links), every other field at its default
RISTConfig(links) ==
    [links |-> links, bonding_method |-> "broadcast",
     sender_buffer |-> 1200, receiver_buffer |-> 1200, reorder_buffer |-> 25,
     rtt_min |-> 50, rtt_max |-> 500, fec_rows |-> 4, fec_columns |-> 5,
     max_retries |-> 10]

\* VideoConfig(codec, width, height, framerate, bitrate), keyframe_interval
\* at its default
VideoConfig(bitrate) ==
    [codec |-> "h264", width |-> 1280, height |-> 720, framerate |-> 30,
     bitrate |-> bitrate, keyframe_interval |-> 60]

RECURSIVE LinkLists(_)
\* every list of n links with addresses 1..n and any enabled flags
LinkLists(n) ==
    IF n = 0 THEN {<<>>}
    ELSE {Append(l, Link(n, e)) : l \in LinkLists(n - 1), e \in BOOLEAN}

\* the transport configurations handed to configure(): at least one link
RistConfigs == UNION {{RISTConfig(l) : l \in LinkLists(n)} : n \in 1..MaxLinks}

\* video bitrates handed to configure(): at the floor of the default
\* AdaptiveConfig, just above it, mid-range, near the ceiling, and outside
\* the range on either side
VideoBitrates == {400000, 500000, 550000, 2000000, 9500000, 12000000}
AudioBitrate == 128000
\* the bitrates update_bitrate() is called with
NewBitrates == {1000000, 3000000}

VideoConfigs == {VideoConfig(b) : b \in VideoBitrates}
AudioConfigs == {[bitrate |-> AudioBitrate]}

\* the video and audio configurations handed to configure()
MediaConfigs ==
    {<<Some(v), Some(a)>> : v \in VideoConfigs \ {VideoConfig(9500000)},
                            a \in AudioConfigs} \cup
    {<<None, Some(a)>> : a \in AudioConfigs} \cup
    {<<Some(VideoConfig(9500000)), None>>}

ErrLaunch == "Pipeline konnte nicht gestartet werden"

\* What the caller holds of an object it passed to configure(): nothing, the
\* very object an attribute of the manager refers to (Python passes and
\* assigns references), or an object of its own with the value val
NoObject == [ref |-> "none", val |-> None]
Attribute == [ref |-> "attribute", val |-> None]
OwnObject(v) == [ref |-> "own", val |-> Some(v)]

\* the value of the caller's object, attr being the manager's attribute
ValueOf(o, attr) == IF o.ref = "attribute" THEN attr ELSE o.val

----------------------------------------------------------------------------
(* RISTManager operations as functions of the manager record *)

Mgr == [rist_config |-> rist_config, video_config |-> video_config,
        audio_config |-> audio_config, process |-> process,
        is_streaming |-> is_streaming, last_error |-> last_error,
        monitor_thread |-> monitor_thread, stop_monitoring |-> stop_monitoring]

SetMgr(m) ==
    /\ rist_config' = m.rist_config
    /\ video_config' = m.video_config
    /\ audio_config' = m.audio_config
    /\ process' = m.process
    /\ is_streaming' = m.is_streaming
    /\ last_error' = m.last_error
    /\ monitor_thread' = m.monitor_thread
    /\ stop_monitoring' = m.stop_monitoring

\* what the launched process does during start(): Popen raises, the process
\* has exited when poll() runs after the 1s sleep, or it is still running
Launches == {"oserror", "exited", "alive"}

\* start without the check of poll() after the grace interval
start_NoGraceCheck(m, launch) ==
    IF m.is_streaming THEN [m |-> m, val |-> "False"]
    ELSE IF m.rist_config = None THEN [m |-> m, val |-> "raise"]
    ELSE IF launch = "oserror"
    THEN [m |-> [m EXCEPT !.last_error = Some("oserror")], val |-> "False"]
    ELSE [m |-> [m EXCEPT !.process = IF launch = "exited" THEN "exited" ELSE "alive",
                          !.is_streaming = TRUE,
                          !.stop_monitoring = FALSE, !.monitor_thread = "alive"],
          val |-> "True"]

\* start without the guard on is_streaming
start_NoRunningGuard(m, launch) ==
    IF m.rist_config = None THEN [m |-> m, val |-> "raise"]
    ELSE IF launch = "oserror"
    THEN [m |-> [m EXCEPT !.last_error = Some("oserror")], val |-> "False"]
    ELSE IF launch = "exited"
    THEN [m |-> [m EXCEPT !.process = "reaped", !.last_error = Some(ErrLaunch)],
          val |-> "False"]
    ELSE [m |-> [m EXCEPT !.process = "alive", !.is_streaming = TRUE,
                          !.stop_monitoring = FALSE, !.monitor_thread = "alive"],
          val |-> "True"]

\* RISTManager.start: [m |-> manager after the call, val |-> returned value]
start(m, launch) ==
    IF m.is_streaming THEN [m |-> m, val |-> "False"]
    ELSE IF m.rist_config = None THEN [m |-> m, val |-> "raise"]
    ELSE IF launch = "oserror"
    THEN [m |-> [m EXCEPT !.last_error = Some("oserror")], val |-> "False"]
    ELSE IF launch = "exited"
    THEN [m |-> [m EXCEPT !.process = "reaped", !.last_error = Some(ErrLaunch)],
          val |-> "False"]
    ELSE [m |-> [m EXCEPT !.process = "alive", !.is_streaming = TRUE,
                          !.stop_monitoring = FALSE, !.monitor_thread = "alive"],
          val |-> "True"]

\* stop for which signalling an ended, unreaped process fails like
\* signalling a reaped one
stop_EndedFails(m) ==
    IF ~m.is_streaming \/ m.process = "None" THEN [m |-> m, val |-> "False"]
    ELSE IF m.process \in {"reaped", "exited"}
    THEN [m |-> m, val |-> "False"]
    ELSE [m |-> [m EXCEPT !.is_streaming = FALSE, !.process = "None",
                          !.stop_monitoring =
                              IF m.monitor_thread = "alive" THEN TRUE ELSE @,
                          !.monitor_thread =
                              IF m.monitor_thread = "alive" THEN "dead" ELSE @],
          val |-> "True"]

\* RISTManager.stop
stop(m) ==
    IF ~m.is_streaming \/ m.process = "None" THEN [m |-> m, val |-> "False"]
    ELSE IF m.process = "reaped"
    \* os.getpgid(pid) of a reaped process raises ProcessLookupError, which
    \* the except clause turns into False before anything is changed
    THEN [m |-> m, val |-> "False"]
    ELSE [m |-> [m EXCEPT !.is_streaming = FALSE, !.process = "None",
                          !.stop_monitoring =
                              IF m.monitor_thread = "alive" THEN TRUE ELSE @,
                          !.monitor_thread =
                              IF m.monitor_thread = "alive" THEN "dead" ELSE @],
          val |-> "True"]

\* update_bitrate without the restart of a running session
update_bitrate_NoRestart(m, b, launch) ==
    IF m.video_config = None THEN [m |-> m, val |-> "False", env |-> "none"]
    ELSE [m |-> [m EXCEPT !.video_config = Some([@[1] EXCEPT !.bitrate = b])],
          val |-> "True", env |-> "none"]

\* RISTManager.update_bitrate: env is how the launch of the restart went,
\* "none" when start() launched nothing
update_bitrate(m, b, launch) ==
    IF m.video_config = None THEN [m |-> m, val |-> "False", env |-> "none"]
    ELSE LET m1 == [m EXCEPT !.video_config = Some([@[1] EXCEPT !.bitrate = b])]
             m2 == stop(m1).m
         IN  IF m1.is_streaming
             THEN [m |-> start(m2, launch).m, val |-> start(m2, launch).val,
                   env |-> IF m2.is_streaming \/ m2.rist_config = None
                           THEN "none" ELSE launch]
             ELSE [m |-> m1, val |-> "True", env |-> "none"]

\* what an operation returned: arg is the bitrate update_bitrate was given
Ret(op, val, env) == [op |-> op, val |-> val, env |-> env, arg |-> 0]

\* the endpoints "address:port" of the links of a list that are enabled, in
\* the order of the list
RECURSIVE EnabledEndpoints(_)
EnabledEndpoints(links) ==
    IF links = <<>> THEN <<>>
    ELSE (IF Head(links).enabled
          THEN <<[address |-> Head(links).address, port |-> Head(links).port]>>
          ELSE <<>>) \o EnabledEndpoints(Tail(links))

\* RISTManager._build_rist_pipeline: the properties of the ristsink element.
\* endpoints stands for address= and port= of the single link, and for the
\* comma-separated address= of several links; bonding_method is None when
\* the property is not set.
_build_rist_pipeline(rc) ==
    IF Len(rc.links) = 1
    THEN [element |-> "ristsink",
          endpoints |-> <<[address |-> rc.links[1].address, port |-> rc.links[1].port]>>,
          bonding_method |-> None,
          sender_buffer |-> rc.sender_buffer, stats_update_interval |-> 1000]
    ELSE [element |-> "ristsink", endpoints |-> EnabledEndpoints(rc.links),
          bonding_method |-> Some(rc.bonding_method),
          sender_buffer |-> rc.sender_buffer, stats_update_interval |-> 1000]

----------------------------------------------------------------------------
(* RISTManager actions *)

\* RISTManager.start, with the ristsink element of the command it hands to
\* Popen in ret.arg (0 when start() returns before building a command)
StartPipeline(launch) ==
    /\ SetMgr(start(Mgr, launch).m)
    /\ ret' = [Ret("start", start(Mgr, launch).val,
                   IF is_streaming \/ rist_config = None THEN "none" ELSE launch)
               EXCEPT !.arg = IF is_streaming \/ rist_config = None THEN 0
                              ELSE _build_rist_pipeline(rist_config[1])]
    /\ UNCHANGED ctlVars
    /\ UNCHANGED thrVars

\* RISTManager.configure
Configure(rc, vc, ac) ==
    /\ IF is_streaming
       THEN /\ UNCHANGED mgrVars
            /\ ret' = Ret("configure", "raise", "none")
       ELSE /\ rist_config' = Some(rc)
            /\ video_config' = vc
            /\ audio_config' = ac
            /\ UNCHANGED <<process, is_streaming, last_error, monitor_thread,
                           stop_monitoring>>
            /\ ret' = Ret("configure", "None", "none")
    \* lines 243-245 assign the arguments themselves
    /\ handed_in' = IF is_streaming THEN handed_in
                    ELSE [rist |-> Attribute,
                          video |-> IF vc = None THEN NoObject ELSE Attribute]
    /\ UNCHANGED ctlVars
    /\ UNCHANGED <<pc, orphans, stopVars, loops, state_callback, callbacks,
                   handed_out, old_monitors>>

Start(launch) ==
    /\ SetMgr(start(Mgr, launch).m)
    /\ ret' = Ret("start", start(Mgr, launch).val,
                  IF is_streaming \/ rist_config = None THEN "none" ELSE launch)
    \* line 443 puts a new thread in the place of one that may still run
    /\ old_monitors' = IF start(Mgr, launch).val = "True" /\ monitor_thread = "alive"
                       THEN old_monitors + 1 ELSE old_monitors
    /\ UNCHANGED ctlVars
    /\ UNCHANGED <<pc, orphans, stopVars, loops, state_callback, callbacks,
                   aliasVars>>

\* RISTManager.update_bitrate
UpdateBitrate(b, launch) ==
    /\ SetMgr(update_bitrate(Mgr, b, launch).m)
    /\ ret' = [Ret("update_bitrate", update_bitrate(Mgr, b, launch).val,
                   update_bitrate(Mgr, b, launch).env) EXCEPT !.arg = b]
    /\ UNCHANGED ctlVars
    /\ UNCHANGED thrVars

Stop ==
    /\ SetMgr(stop(Mgr).m)
    /\ ret' = Ret("stop", stop(Mgr).val, "none")
    /\ UNCHANGED ctlVars
    /\ UNCHANGED thrVars

\* The caller assigns to the bitrate of the VideoConfig it passed to
\* configure().  Line 244 stored that very object, so the assignment is to
\* self.video_config as long as the attribute still refers to it.
CallerSetsBitrate(b) ==
    /\ handed_in.video.ref # "none"
    /\ IF handed_in.video.ref = "attribute"
       THEN /\ video_config' = Some([video_config[1] EXCEPT !.bitrate = b])
            /\ UNCHANGED handed_in
       ELSE /\ handed_in' = [handed_in EXCEPT
                                !.video = OwnObject([@.val[1] EXCEPT !.bitrate = b])]
            /\ UNCHANGED video_config
    /\ ret' = [Ret("caller", "None", "none") EXCEPT !.arg = b]
    /\ UNCHANGED <<rist_config, audio_config, process, is_streaming, last_error,
                   monitor_thread, stop_monitoring, ctlVars>>
    /\ UNCHANGED <<pc, orphans, stopVars, loops, state_callback, callbacks,
                   handed_out, old_monitors>>

\* The caller assigns to the enabled flag of link i of the RISTConfig it
\* passed to configure() (line 243 stored that very object)
CallerSetsLink(i, e) ==
    /\ handed_in.rist.ref # "none"
    /\ IF handed_in.rist.ref = "attribute"
       THEN /\ i \in 1..Len(rist_config[1].links)
            /\ rist_config' = Some([rist_config[1] EXCEPT !.links[i].enabled = e])
            /\ UNCHANGED handed_in
       ELSE /\ i \in 1..Len(handed_in.rist.val[1].links)
            /\ handed_in' = [handed_in EXCEPT
                                !.rist = OwnObject([@.val[1] EXCEPT
                                                       !.links[i].enabled = e])]
            /\ UNCHANGED rist_config
    /\ ret' = [Ret("caller", "None", "none") EXCEPT !.arg = i]
    /\ UNCHANGED <<video_config, audio_config, process, is_streaming, last_error,
                   monitor_thread, stop_monitoring, ctlVars>>
    /\ UNCHANGED <<pc, orphans, stopVars, loops, state_callback, callbacks,
                   handed_out, old_monitors>>

\* the pipeline process ends by itself (crash or end of stream)
ProcessExit ==
    /\ process = "alive"
    /\ process' = "exited"
    /\ ret' = Ret("exit", "None", "none")
    /\ UNCHANGED <<rist_config, video_config, audio_config, is_streaming,
                   last_error, monitor_thread, stop_monitoring, ctlVars>>
    /\ UNCHANGED thrVars

\* RISTManager.get_status: process.poll() reaps a process that has exited
GetStatus ==
    /\ process' = IF process = "exited" THEN "reaped" ELSE process
    /\ ret' = Ret("get_status", "None", "none")
    /\ UNCHANGED <<rist_config, video_config, audio_config, is_streaming,
                   last_error, monitor_thread, stop_monitoring, ctlVars>>
    /\ UNCHANGED thrVars

\* str.lower() on the ASCII letters (line 159)
UpperCase == "ABCDEFGHIJKLMNOPQRSTUVWXYZ"
LowerCase == "abcdefghijklmnopqrstuvwxyz"

LowerChar(c) ==
    IF \E i \in 1..Len(UpperCase) : SubSeq(UpperCase, i, i) = c
    THEN LET i == CHOOSE j \in 1..Len(UpperCase) : SubSeq(UpperCase, j, j) = c
         IN  SubSeq(LowerCase, i, i)
    ELSE c

RECURSIVE lower(_)
lower(s) ==
    IF Len(s) = 0 THEN ""
    ELSE LowerChar(SubSeq(s, 1, 1)) \o lower(SubSeq(s, 2, Len(s)))

\* Python's "sub in s" on strings
Contains(s, sub) ==
    \E i \in 1..(Len(s) + 1 - Len(sub)) : SubSeq(s, i, i + Len(sub) - 1) = sub

\* the slice line[:100] of line 177
MaxErrorLen == 100

\* _parse_gst_error looking for the end-of-stream signatures before the
\* internal data flow error
_parse_gst_error_EosFirst(line) ==
    LET line_lower == lower(line) IN
    IF Contains(line_lower, "no space left on device")
    THEN Some("Speicherplatz voll - Stream kann nicht aufgezeichnet werden")
    ELSE IF \/ Contains(line_lower, "could not open resource")
            \/ Contains(line_lower, "connection refused")
    THEN Some("RIST-Verbindung fehlgeschlagen - Server nicht erreichbar")
    ELSE IF \/ Contains(line_lower, "streaming stopped")
            \/ Contains(line_lower, "eos")
    THEN Some("RIST Stream unerwartet beendet")
    ELSE IF Contains(line_lower, "internal data flow error")
    THEN Some("Pipeline-Fehler - Video/Audio-Quelle pruefen")
    ELSE IF Contains(line_lower, "not negotiated")
    THEN Some("Video/Audio-Format nicht unterstuetzt")
    ELSE IF \/ Contains(line_lower, "no such element")
            \/ Contains(line_lower, "failed to create element")
    THEN Some("GStreamer-Plugin fehlt - Installation pruefen")
    ELSE IF Contains(line_lower, "error")
    THEN Some("RIST Error: " \o SubSeq(line, 1, Min(Len(line), MaxErrorLen)))
    ELSE None

\* RISTManager._parse_gst_error
_parse_gst_error(line) ==
    LET line_lower == lower(line) IN
    IF Contains(line_lower, "no space left on device")
    THEN Some("Speicherplatz voll - Stream kann nicht aufgezeichnet werden")
    ELSE IF \/ Contains(line_lower, "could not open resource")
            \/ Contains(line_lower, "connection refused")
    THEN Some("RIST-Verbindung fehlgeschlagen - Server nicht erreichbar")
    ELSE IF Contains(line_lower, "internal data flow error")
    THEN Some("Pipeline-Fehler - Video/Audio-Quelle pruefen")
    ELSE IF \/ Contains(line_lower, "streaming stopped")
            \/ Contains(line_lower, "eos")
    THEN Some("RIST Stream unerwartet beendet")
    ELSE IF Contains(line_lower, "not negotiated")
    THEN Some("Video/Audio-Format nicht unterstuetzt")
    ELSE IF \/ Contains(line_lower, "no such element")
            \/ Contains(line_lower, "failed to create element")
    THEN Some("GStreamer-Plugin fehlt - Installation pruefen")
    ELSE IF Contains(line_lower, "error")
    THEN Some("RIST Error: " \o SubSeq(line, 1, Min(Len(line), MaxErrorLen)))
    ELSE None

\* diagnostic lines the process writes while it runs
GstLines == <<"no space left on device", "connection refused",
              "internal data flow error", "eos", "not negotiated",
              "no such element", "error", "info">>

\* what _parse_gst_error returns for each line of GstLines
GstErrors == [k \in 1..Len(GstLines) |-> _parse_gst_error(GstLines[k])]

\* _monitor_stderr forgetting the error on a line that classifies to nothing
MonitorLine_Forgets(k) ==
    /\ monitor_thread = "alive"
    /\ ~stop_monitoring
    /\ process = "alive"
    /\ last_error' = GstErrors[k]
    /\ ret' = [Ret("monitor", "None", "none") EXCEPT !.arg = k]
    /\ UNCHANGED <<rist_config, video_config, audio_config, process,
                   is_streaming, monitor_thread, stop_monitoring, ctlVars>>
    /\ UNCHANGED thrVars

\* RISTManager._monitor_stderr, line k of GstLines read from the running
\* process (ret.arg records k)
MonitorLine(k) ==
    /\ monitor_thread = "alive"
    /\ ~stop_monitoring
    /\ process = "alive"
    /\ LET error_msg == GstErrors[k]
       IN  last_error' = IF error_msg # None THEN error_msg ELSE last_error
    /\ ret' = [Ret("monitor", "None", "none") EXCEPT !.arg = k]
    /\ UNCHANGED <<rist_config, video_config, audio_config, process,
                   is_streaming, monitor_thread, stop_monitoring, ctlVars>>
    /\ UNCHANGED thrVars

\* RISTManager._monitor_stderr leaving its loop after the process has ended:
\* through poll(), which reaps the process, or through the end of the stream
MonitorExit(polled) ==
    /\ monitor_thread = "alive"
    /\ process \in {"exited", "reaped"}
    /\ monitor_thread' = "dead"
    /\ process' = IF polled THEN "reaped" ELSE process
    /\ ret' = Ret("monitor", "None", "none")
    /\ UNCHANGED <<rist_config, video_config, audio_config, is_streaming,
                   last_error, stop_monitoring, ctlVars>>
    /\ UNCHANGED thrVars

\* RISTManager.stop in which join(timeout=2) (line 474) returns while the
\* monitor thread is still inside readline() (line 196): the thread goes on
\* after stop() has returned.  Stop is the call in which the thread ends
\* within the join.
StopJoinTimeout ==
    /\ is_streaming
    /\ process \in {"alive", "exited"}
    /\ monitor_thread = "alive"
    /\ is_streaming' = FALSE
    /\ process' = "None"
    /\ stop_monitoring' = TRUE
    /\ ret' = Ret("stop", "True", "timeout")
    /\ UNCHANGED <<rist_config, video_config, audio_config, last_error,
                   monitor_thread, ctlVars>>
    /\ UNCHANGED thrVars

\* readline() returns line k to the monitor thread of a session that stop()
\* has ended (lines 196-218), and the thread tests the stop event, which is
\* set, at line 191
StoppedMonitorLine(k) ==
    /\ monitor_thread = "alive"
    /\ ~is_streaming /\ process = "None"
    /\ LET error_msg == GstErrors[k]
       IN  last_error' = IF error_msg # None THEN error_msg ELSE last_error
    /\ monitor_thread' = IF stop_monitoring THEN "dead" ELSE monitor_thread
    /\ ret' = [Ret("monitor", "None", "stopped") EXCEPT !.arg = k]
    /\ UNCHANGED <<rist_config, video_config, audio_config, process,
                   is_streaming, stop_monitoring, ctlVars>>
    /\ UNCHANGED thrVars

\* readline() returns the end of the stream to the monitor thread of a
\* session that stop() has ended (lines 197-198)
StoppedMonitorExit ==
    /\ monitor_thread = "alive"
    /\ ~is_streaming /\ process = "None"
    /\ monitor_thread' = "dead"
    /\ ret' = Ret("monitor", "None", "stopped")
    /\ UNCHANGED <<rist_config, video_config, audio_config, process,
                   is_streaming, last_error, stop_monitoring, ctlVars>>
    /\ UNCHANGED thrVars

\* readline() returns line k to a monitor thread that a later start() has
\* replaced (lines 196-218); at lines 191-192 the thread goes on, now on
\* the stderr of the process self.process refers to, unless the stop event
\* is set or that process has ended
OldMonitorLine(k) ==
    /\ old_monitors > 0
    /\ LET error_msg == GstErrors[k]
       IN  last_error' = IF error_msg # None THEN error_msg ELSE last_error
    /\ old_monitors' = IF stop_monitoring \/ process # "alive"
                       THEN old_monitors - 1 ELSE old_monitors
    /\ ret' = [Ret("monitor", "None", "stopped") EXCEPT !.arg = k]
    /\ UNCHANGED <<rist_config, video_config, audio_config, process,
                   is_streaming, monitor_thread, stop_monitoring, ctlVars>>
    /\ UNCHANGED <<pc, orphans, stopVars, loops, state_callback, callbacks,
                   aliasVars>>

\* readline() returns the end of the stream to a monitor thread that a
\* later start() has replaced (lines 197-198)
OldMonitorExit ==
    /\ old_monitors > 0
    /\ old_monitors' = old_monitors - 1
    /\ ret' = Ret("monitor", "None", "stopped")
    /\ UNCHANGED mgrVars
    /\ UNCHANGED ctlVars
    /\ UNCHANGED <<pc, orphans, stopVars, loops, state_callback, callbacks,
                   aliasVars>>

\* the threads running _monitor_stderr
ActiveMonitors == (IF monitor_thread = "alive" THEN 1 ELSE 0) + old_monitors

----------------------------------------------------------------------------
(* RISTManager.start, stop and update_bitrate step by step, as two threads *)
(* run them: the class has no lock, so a thread can be overtaken between   *)
(* any two steps                                                           *)

\* the message of an exception caught by the except clause of start()
ErrException == "oserror"

\* start(), lines 407-412: the guards.  update_bitrate() reaches them after
\* its stop() ("ub_start")
StartEnter(t) ==
    /\ pc[t] \in {"idle", "ub_start"}
    /\ IF is_streaming
       THEN /\ ret' = Ret("start", "False", "none")
            /\ pc' = [pc EXCEPT ![t] = "idle"]
       ELSE IF rist_config = None
       THEN /\ ret' = Ret("start", "raise", "none")
            /\ pc' = [pc EXCEPT ![t] = "idle"]
       ELSE /\ pc' = [pc EXCEPT ![t] = "start_launch"]
            /\ UNCHANGED ret
    /\ UNCHANGED <<mgrVars, ctlVars, orphans>>
    /\ UNCHANGED stopVars
    /\ UNCHANGED loopVars

\* start(), lines 414-428: Popen raises, or it launches a process and
\* self.process refers to the new one
StartLaunch(t, launch) ==
    /\ pc[t] = "start_launch"
    /\ IF launch = "oserror"
       THEN /\ last_error' = Some(ErrException)
            /\ ret' = Ret("start", "False", "oserror")
            /\ pc' = [pc EXCEPT ![t] = "idle"]
            /\ UNCHANGED <<process, orphans>>
       ELSE /\ process = "alive" => orphans < MaxOrphans
            /\ orphans' = IF process = "alive" THEN orphans + 1 ELSE orphans
            /\ process' = "alive"
            /\ pc' = [pc EXCEPT ![t] = "start_grace"]
            /\ UNCHANGED <<last_error, ret>>
    /\ UNCHANGED <<rist_config, video_config, audio_config, is_streaming,
                   monitor_thread, stop_monitoring, ctlVars>>
    /\ UNCHANGED stopVars
    /\ UNCHANGED loopVars

\* start(), lines 430-452, after the sleep: self.process.poll() and what
\* follows it
StartGrace(t) ==
    /\ pc[t] = "start_grace"
    /\ pc' = [pc EXCEPT ![t] = "idle"]
    /\ IF process = "None"
       \* another thread's stop() has cleared the handle: AttributeError
       THEN /\ last_error' = Some(ErrException)
            /\ ret' = Ret("start", "False", "oserror")
            /\ UNCHANGED <<process, is_streaming, monitor_thread, stop_monitoring>>
       ELSE IF process \in {"exited", "reaped"}
       THEN /\ process' = "reaped"
            /\ last_error' = Some(ErrLaunch)
            /\ ret' = Ret("start", "False", "exited")
            /\ UNCHANGED <<is_streaming, monitor_thread, stop_monitoring>>
       ELSE /\ is_streaming' = TRUE
            /\ stop_monitoring' = FALSE
            /\ monitor_thread' = "alive"
            /\ ret' = Ret("start", "True", "alive")
            /\ UNCHANGED <<process, last_error>>
    /\ UNCHANGED <<rist_config, video_config, audio_config, ctlVars, orphans>>
    /\ UNCHANGED stopVars
    /\ UNCHANGED loopVars

\* stop(), lines 461-463: the guard
StopEnter(t) ==
    /\ pc[t] = "idle"
    /\ IF ~is_streaming \/ process = "None"
       THEN /\ ret' = Ret("stop", "False", "none")
            /\ UNCHANGED <<pc, stopVars>>
       ELSE /\ pc' = [pc EXCEPT ![t] = "stop_signal"]
            /\ signals' = <<>>
            /\ waited' = 0
            /\ UNCHANGED ret
    /\ UNCHANGED <<mgrVars, ctlVars, orphans>>
    /\ UNCHANGED loopVars

\* stop(), lines 465-492: the try block, on the process self.process
\* refers to by now
StopFinish(t) ==
    /\ pc[t] = "stop_signal"
    /\ pc' = [pc EXCEPT ![t] = "idle"]
    /\ IF process \in {"None", "reaped"}
       THEN /\ ret' = Ret("stop", "False", "none")
            /\ UNCHANGED <<process, is_streaming, monitor_thread, stop_monitoring>>
       ELSE /\ is_streaming' = FALSE
            /\ process' = "None"
            /\ stop_monitoring' = IF monitor_thread = "alive" THEN TRUE
                                  ELSE stop_monitoring
            /\ monitor_thread' = IF monitor_thread = "alive" THEN "dead"
                                 ELSE monitor_thread
            /\ ret' = Ret("stop", "True", "none")
    /\ UNCHANGED <<rist_config, video_config, audio_config, last_error, ctlVars,
                   orphans>>
    /\ UNCHANGED stopVars
    /\ UNCHANGED loopVars

\* update_bitrate(b), lines 544-552 and 558
UbEnter(t, b) ==
    /\ pc[t] = "idle"
    /\ IF video_config = None
       THEN /\ ret' = [Ret("update_bitrate", "False", "none") EXCEPT !.arg = b]
            /\ UNCHANGED <<video_config, pc>>
       ELSE /\ video_config' = Some([video_config[1] EXCEPT !.bitrate = b])
            /\ IF is_streaming
               THEN /\ pc' = [pc EXCEPT ![t] = "ub_stop"]
                    /\ UNCHANGED ret
               ELSE /\ ret' = [Ret("update_bitrate", "True", "none") EXCEPT !.arg = b]
                    /\ UNCHANGED pc
    /\ UNCHANGED <<rist_config, audio_config, process, is_streaming, last_error,
                   monitor_thread, stop_monitoring, ctlVars, orphans>>
    /\ UNCHANGED stopVars
    /\ UNCHANGED loopVars

\* update_bitrate(b), line 554: its call of stop()
UbStop(t) ==
    /\ pc[t] = "ub_stop"
    /\ SetMgr(stop(Mgr).m)
    /\ pc' = [pc EXCEPT ![t] = "ub_start"]
    /\ UNCHANGED <<ret, ctlVars, orphans>>
    /\ UNCHANGED stopVars
    /\ UNCHANGED loopVars

\* a running process that self.process no longer refers to ends by itself
OrphanExit ==
    /\ orphans > 0
    /\ orphans' = orphans - 1
    /\ UNCHANGED <<mgrVars, ret, ctlVars, pc, stopVars>>
    /\ UNCHANGED loopVars

----------------------------------------------------------------------------
(* RISTManager.stop, lines 465-492, signal by signal and second by second *)

\* process.wait(timeout=5), rist_manager.py:478
StopTimeout == 5

\* lines 469-474: the interrupt to the process group, then the monitor thread
\* is told to stop and joined for at most two seconds.  os.getpgid raises
\* for a process that is gone or reaped, and the except clause returns False
StopInterrupt(t) ==
    /\ pc[t] = "stop_signal"
    /\ IF process \in {"None", "reaped"}
       THEN /\ ret' = Ret("stop", "False", "none")
            /\ pc' = [pc EXCEPT ![t] = "idle"]
            /\ UNCHANGED <<monitor_thread, stop_monitoring, signals>>
       ELSE /\ signals' = Append(signals, "SIGINT")
            /\ stop_monitoring' = IF monitor_thread = "alive" THEN TRUE
                                  ELSE stop_monitoring
            /\ monitor_thread' = IF monitor_thread = "alive" THEN "dead"
                                 ELSE monitor_thread
            /\ pc' = [pc EXCEPT ![t] = "stop_wait"]
            /\ UNCHANGED ret
    /\ UNCHANGED <<rist_config, video_config, audio_config, process,
                   is_streaming, last_error, ctlVars, orphans, waited>>
    /\ UNCHANGED loopVars

\* line 478: a second passes in process.wait(timeout=5), the process alive
StopWaitTick(t) ==
    /\ pc[t] = "stop_wait"
    /\ process = "alive"
    /\ waited < StopTimeout
    /\ waited' = waited + 1
    /\ UNCHANGED <<mgrVars, ret, ctlVars, pc, orphans, signals>>
    /\ UNCHANGED loopVars

\* process.wait (line 478 or 483) returns because the process has ended;
\* lines 485-488
StopWaited(t) ==
    /\ pc[t] \in {"stop_wait", "stop_killed"}
    /\ process \in {"exited", "reaped"}
    /\ is_streaming' = FALSE
    /\ process' = "None"
    /\ ret' = Ret("stop", "True", "none")
    /\ pc' = [pc EXCEPT ![t] = "idle"]
    /\ UNCHANGED <<rist_config, video_config, audio_config, last_error,
                   monitor_thread, stop_monitoring, ctlVars, orphans, stopVars>>
    /\ UNCHANGED loopVars

\* StopKill sending the kill whatever time has been waited
StopKill_NoWait(t) ==
    /\ pc[t] = "stop_wait"
    /\ process = "alive"
    /\ signals' = Append(signals, "SIGKILL")
    /\ pc' = [pc EXCEPT ![t] = "stop_killed"]
    /\ UNCHANGED <<mgrVars, ret, ctlVars, orphans, waited>>
    /\ UNCHANGED loopVars

\* lines 479-482: TimeoutExpired after five seconds, the kill to the group
StopKill(t) ==
    /\ pc[t] = "stop_wait"
    /\ process = "alive"
    /\ waited = StopTimeout
    /\ signals' = Append(signals, "SIGKILL")
    /\ pc' = [pc EXCEPT ![t] = "stop_killed"]
    /\ UNCHANGED <<mgrVars, ret, ctlVars, orphans, waited>>
    /\ UNCHANGED loopVars

\* the process ends because it was sent SIGKILL, which it cannot ignore
Killed ==
    /\ Len(signals) > 0 /\ signals[Len(signals)] = "SIGKILL"
    /\ ProcessExit

----------------------------------------------------------------------------
(* AdaptiveConfig and AdaptiveState, adaptive_controller.py:28-92 *)

\* AdaptiveConfig with the defaults of the dataclass; losses in hundredths of
\* a percent, step fractions in percent
DefaultConfig ==
    [enabled |-> TRUE, adaptive_bitrate_enabled |-> TRUE,
     adaptive_links_enabled |-> TRUE,
     packet_loss_threshold_high |-> 500, packet_loss_threshold_low |-> 100,
     rtt_threshold_high |-> 200,
     bitrate_step_down |-> 15, bitrate_step_up |-> 10,
     min_video_bitrate |-> 500000, max_video_bitrate |-> 10000000,
     link_disable_signal_threshold |-> 20, link_enable_signal_threshold |-> 40,
     stats_check_interval |-> 2, config_save_interval |-> 10,
     stable_periods_before_increase |-> 5, immediate_decrease |-> TRUE]

\* a short stability window
QuickConfig == [DefaultConfig EXCEPT !.stable_periods_before_increase = 2]

\* thresholds that overlap (low above high)
OverlapConfig == [QuickConfig EXCEPT !.packet_loss_threshold_low = 1000]

\* decrease on bad statistics switched off
DeferredConfig == [QuickConfig EXCEPT !.immediate_decrease = FALSE]

\* the controller switched off
DisabledConfig == [QuickConfig EXCEPT !.enabled = FALSE]

\* the configurations handed to the constructor and to update_config()
Configs == {DefaultConfig, QuickConfig, OverlapConfig, DeferredConfig}

\* AdaptiveState()
InitialState ==
    [current_packet_loss |-> 0, current_rtt |-> 0, current_retransmissions |-> 0,
     current_video_bitrate |-> 0, current_audio_bitrate |-> 0,
     active_links |-> <<>>, disabled_links |-> <<>>,
     stable_periods |-> 0, last_adjustment_time |-> 0,
     total_bitrate_increases |-> 0, total_bitrate_decreases |-> 0,
     total_link_disables |-> 0, total_link_enables |-> 0]

----------------------------------------------------------------------------
(* What the collaborators hand to one control-loop iteration *)

\* RISTManager.get_stats(): None (nothing to report) or the packet counters
StatsSamples ==
    {None} \cup
    {Some([sent_original_packets |-> o, sent_retransmitted_packets |-> r]) :
        <<o, r>> \in {<<0, 0>>, <<100, 1>>, <<100, 5>>, <<100, 7>>}}

\* The link-quality monitor reports on modems 1 and 2; modem i is the modem
\* of the link with address i (the source itself keeps no such mapping).

\* one modem's status
Reading(c, s) == [connected |-> c, signal_strength |-> s]

\* the signal strengths reported: below the disable threshold, between the
\* two thresholds, above the enable threshold
Signals == {15, 30, 60}

\* ModemMonitor.get_all_modem_status(): the dict as the list of its items,
\* in the order the dict yields them
ModemReports ==
    {<<>>} \cup
    {<<[id |-> p[1], status |-> Reading(TRUE, s)],
       [id |-> p[2], status |-> Reading(TRUE, t)]>> :
        p \in {<<1, 2>>, <<2, 1>>}, s \in Signals, t \in Signals} \cup
    {<<[id |-> 1, status |-> Reading(FALSE, 60)],
       [id |-> 2, status |-> Reading(TRUE, t)]>> : t \in Signals}

RECURSIVE ToSet(_)
ToSet(s) == IF s = <<>> THEN {} ELSE {Head(s)} \cup ToSet(Tail(s))

----------------------------------------------------------------------------
(* The control loop's steps.  K is what one iteration works on:            *)
(* [state, video_config, rist_config, dirty, pushes]                       *)

\* RISTManager.hot_reload(...): the manager takes the new configuration
\* object and reports success, or rejects it and keeps the old one
hot_reload(current, new, accepted) == IF accepted THEN Some(new) ELSE current

\* AdaptiveController._update_rist_stats
_update_rist_stats(st, stats, vc, ac) ==
    IF stats = None THEN st
    ELSE LET o == stats[1].sent_original_packets
             r == stats[1].sent_retransmitted_packets
         IN [st EXCEPT
                !.current_packet_loss = IF o > 0 THEN (r * 10000) \div o ELSE 0,
                !.current_retransmissions = r,
                !.current_video_bitrate = IF vc # None THEN vc[1].bitrate ELSE @,
                !.current_audio_bitrate = IF ac # None THEN ac[1].bitrate ELSE @]

RECURSIVE ActiveOf(_, _)
ActiveOf(reports, cfg) ==
    IF reports = <<>> THEN <<>>
    ELSE LET h == Head(reports)
         IN (IF h.status.connected /\
                h.status.signal_strength >= cfg.link_enable_signal_threshold
             THEN <<h.id>> ELSE <<>>) \o ActiveOf(Tail(reports), cfg)

RECURSIVE DisabledOf(_, _)
DisabledOf(reports, cfg) ==
    IF reports = <<>> THEN <<>>
    ELSE LET h == Head(reports)
         IN (IF ~(h.status.connected /\
                  h.status.signal_strength >= cfg.link_enable_signal_threshold)
                /\ h.status.signal_strength < cfg.link_disable_signal_threshold
             THEN <<h.id>> ELSE <<>>) \o DisabledOf(Tail(reports), cfg)

\* _update_modem_stats replacing both lists on every sample
_update_modem_stats_Always(st, reports, cfg) ==
    [st EXCEPT !.active_links = ActiveOf(reports, cfg),
               !.disabled_links = DisabledOf(reports, cfg)]

\* AdaptiveController._update_modem_stats
_update_modem_stats(st, reports, cfg) ==
    LET active == ActiveOf(reports, cfg)
        disabled == DisabledOf(reports, cfg)
    IN [st EXCEPT
           !.active_links = IF ToSet(active) # ToSet(@) THEN active ELSE @,
           !.disabled_links = IF ToSet(disabled) # ToSet(@) THEN disabled ELSE @]

\* one call of _apply_video_bitrate or _apply_link_config
Push(kind, bitrate, links, accepted) ==
    [kind |-> kind, bitrate |-> bitrate, links |-> links, accepted |-> accepted]

\* AdaptiveController._apply_video_bitrate; accepted: the try block ran to
\* the end and hot_reload returned True.  It does not when building the new
\* VideoConfig raises (no video configuration, or one without the fields
\* read at lines 406-411), when hot_reload raises or when it returns False.
_apply_video_bitrate(K, new_bitrate, accepted) ==
    LET ok == accepted /\ K.video_config # None
        P == [K EXCEPT !.pushes = Append(@, Push("video", new_bitrate, <<>>, ok))]
    IN IF ok
       THEN [P EXCEPT
                !.video_config =
                    hot_reload(@, [VideoConfig(new_bitrate) EXCEPT
                                      !.codec = K.video_config[1].codec,
                                      !.width = K.video_config[1].width,
                                      !.height = K.video_config[1].height,
                                      !.framerate = K.video_config[1].framerate],
                               TRUE),
                !.state.current_video_bitrate = new_bitrate,
                !.dirty = TRUE]
       ELSE P

\* the decrease without the floor
DecreasedBitrate_NoFloor(current_bitrate, cfg) ==
    (current_bitrate * (100 - cfg.bitrate_step_down)) \div 100

\* the bitrate the decrease branch asks for
DecreasedBitrate(current_bitrate, cfg) ==
    Max((current_bitrate * (100 - cfg.bitrate_step_down)) \div 100,
        cfg.min_video_bitrate)

\* the bitrate the increase branch asks for
IncreasedBitrate(current_bitrate, cfg) ==
    Min((current_bitrate * (100 + cfg.bitrate_step_up)) \div 100,
        cfg.max_video_bitrate)

\* should_decrease of _adaptive_bitrate_control
ShouldDecrease(st, cfg) ==
    \/ st.current_packet_loss > cfg.packet_loss_threshold_high
    \/ (st.current_rtt > cfg.rtt_threshold_high /\ st.current_rtt > 0)

\* can_increase of _adaptive_bitrate_control
CanIncrease(st, cfg) ==
    /\ st.current_packet_loss < cfg.packet_loss_threshold_low
    /\ st.current_video_bitrate < cfg.max_video_bitrate

\* the decrease taken on bad statistics whatever immediate_decrease says
DecreaseNow_Always(st, cfg) == ShouldDecrease(st, cfg)

\* the test of the decrease branch (line 294)
DecreaseNow(st, cfg) == ShouldDecrease(st, cfg) /\ cfg.immediate_decrease

\* the bitrate policy with the increase branch tried before the decrease
_adaptive_bitrate_control_IncreaseFirst(K, cfg, t, accepted) ==
    LET st == K.state
        current_bitrate == st.current_video_bitrate
    IN
    IF current_bitrate = 0 THEN K
    ELSE IF CanIncrease(st, cfg)
    THEN LET S == [K EXCEPT !.state.stable_periods = @ + 1]
         IN IF S.state.stable_periods >= cfg.stable_periods_before_increase
            THEN LET new_bitrate == IncreasedBitrate(current_bitrate, cfg)
                 IN IF new_bitrate > current_bitrate
                    THEN LET A == _apply_video_bitrate(S, new_bitrate, accepted)
                         IN [A EXCEPT !.state.stable_periods = 0,
                                      !.state.total_bitrate_increases = @ + 1,
                                      !.state.last_adjustment_time = t]
                    ELSE S
            ELSE S
    ELSE IF DecreaseNow(st, cfg)
    THEN LET new_bitrate == DecreasedBitrate(current_bitrate, cfg)
         IN IF new_bitrate < current_bitrate
            THEN LET A == _apply_video_bitrate(K, new_bitrate, accepted)
                 IN [A EXCEPT !.state.stable_periods = 0,
                              !.state.total_bitrate_decreases = @ + 1,
                              !.state.last_adjustment_time = t]
            ELSE K
    ELSE IF st.current_packet_loss >= cfg.packet_loss_threshold_low
    THEN [K EXCEPT !.state.stable_periods = 0]
    ELSE K

\* AdaptiveController._adaptive_bitrate_control
_adaptive_bitrate_control(K, cfg, t, accepted) ==
    LET st == K.state
        current_bitrate == st.current_video_bitrate
    IN
    IF current_bitrate = 0 THEN K
    ELSE IF DecreaseNow(st, cfg)
    THEN LET new_bitrate == DecreasedBitrate(current_bitrate, cfg)
         IN IF new_bitrate < current_bitrate
            THEN LET A == _apply_video_bitrate(K, new_bitrate, accepted)
                 IN [A EXCEPT !.state.stable_periods = 0,
                              !.state.total_bitrate_decreases = @ + 1,
                              !.state.last_adjustment_time = t]
            ELSE K
    ELSE IF CanIncrease(st, cfg)
    THEN LET S == [K EXCEPT !.state.stable_periods = @ + 1]
         IN IF S.state.stable_periods >= cfg.stable_periods_before_increase
            THEN LET new_bitrate == IncreasedBitrate(current_bitrate, cfg)
                 IN IF new_bitrate > current_bitrate
                    THEN LET A == _apply_video_bitrate(S, new_bitrate, accepted)
                         IN [A EXCEPT !.state.stable_periods = 0,
                                      !.state.total_bitrate_increases = @ + 1,
                                      !.state.last_adjustment_time = t]
                    ELSE S
            ELSE S
    ELSE IF st.current_packet_loss >= cfg.packet_loss_threshold_low
    THEN [K EXCEPT !.state.stable_periods = 0]
    ELSE K

\* whether this iteration's bitrate step reaches _apply_video_bitrate
BitrateApplies(K, cfg) ==
    LET st == K.state
        b == st.current_video_bitrate
    IN /\ b # 0
       /\ IF DecreaseNow(st, cfg)
          THEN DecreasedBitrate(b, cfg) < b
          ELSE /\ CanIncrease(st, cfg)
               /\ st.stable_periods + 1 >= cfg.stable_periods_before_increase
               /\ IncreasedBitrate(b, cfg) > b

----------------------------------------------------------------------------
(* Link policy *)

RECURSIVE LinkDecision(_, _, _, _)
\* the loop over modem_status.items() for one link (lines 363-382);
\* d: [should_be_enabled, disables, enables, needs_update]
LinkDecision(link, reports, cfg, d) ==
    IF reports = <<>> THEN d
    ELSE LET s == Head(reports).status.signal_strength
             e == IF s < cfg.link_disable_signal_threshold
                  THEN [d EXCEPT
                           !.should_be_enabled = FALSE,
                           !.disables = IF link.enabled THEN @ + 1 ELSE @,
                           !.needs_update = IF link.enabled THEN TRUE ELSE @]
                  ELSE IF s >= cfg.link_enable_signal_threshold
                  THEN [d EXCEPT
                           !.should_be_enabled = TRUE,
                           !.enables = IF ~link.enabled THEN @ + 1 ELSE @,
                           !.needs_update = IF ~link.enabled THEN TRUE ELSE @]
                  ELSE d
         IN LinkDecision(link, Tail(reports), cfg, e)

RECURSIVE LinkPass(_, _, _, _)
\* the loop over current_links (lines 351-390);
\* acc: [new_links, disables, enables, needs_update]
LinkPass(links, reports, cfg, acc) ==
    IF links = <<>> THEN acc
    ELSE LET link == Head(links)
             d == LinkDecision(link, reports, cfg,
                               [should_be_enabled |-> TRUE,
                                disables |-> acc.disables,
                                enables |-> acc.enables,
                                needs_update |-> acc.needs_update])
         IN LinkPass(Tail(links), reports, cfg,
                     [new_links |-> Append(acc.new_links,
                                           RISTLink(link.address, link.port,
                                                    d.should_be_enabled, 100)),
                      disables |-> d.disables, enables |-> d.enables,
                      needs_update |-> d.needs_update])

\* AdaptiveController._apply_link_config; accepted as in _apply_video_bitrate
_apply_link_config(K, new_links, accepted) ==
    LET ok == accepted /\ K.rist_config # None
        P == [K EXCEPT !.pushes = Append(@, Push("links", 0, new_links, ok))]
    IN IF ok
       THEN [P EXCEPT
                !.rist_config =
                    hot_reload(@, [RISTConfig(new_links) EXCEPT
                                      !.bonding_method = K.rist_config[1].bonding_method,
                                      !.sender_buffer = K.rist_config[1].sender_buffer,
                                      !.receiver_buffer = K.rist_config[1].receiver_buffer],
                               TRUE),
                !.dirty = TRUE]
       ELSE P

\* AdaptiveController._adaptive_link_control; every call of
\* get_all_modem_status() within one iteration yields the same reports
_adaptive_link_control(K, reports, cfg, accepted) ==
    IF K.rist_config = None THEN K
    ELSE LET r == LinkPass(K.rist_config[1].links, reports, cfg,
                           [new_links |-> <<>>,
                            disables |-> K.state.total_link_disables,
                            enables |-> K.state.total_link_enables,
                            needs_update |-> FALSE])
             C == [K EXCEPT !.state.total_link_disables = r.disables,
                            !.state.total_link_enables = r.enables]
         IN IF r.needs_update
            THEN _apply_link_config(C, r.new_links, accepted)
            ELSE C

\* whether this iteration's link step reaches _apply_link_config
LinkApplies(K, reports, cfg) ==
    /\ K.rist_config # None
    /\ LinkPass(K.rist_config[1].links, reports, cfg,
                [new_links |-> <<>>, disables |-> 0, enables |-> 0,
                 needs_update |-> FALSE]).needs_update

----------------------------------------------------------------------------
(* Persistence *)

\* the documents found at config_path when the controller is constructed
InitialStores ==
    {None,
     Some([video_bitrate |-> None, audio_bitrate |-> None, links |-> None,
           other |-> "belaUI"])}

\* what is left of the document when writing it fails after open(path, 'w')
\* has truncated it (lines 493-494): its content is lost and it no longer
\* parses
Damaged ==
    Some([video_bitrate |-> None, audio_bitrate |-> None, links |-> None,
          other |-> "truncated"])

\* the link list as _save_config writes it (lines 483-490): address, port
\* and enabled flag of each link
SavedLinks(links) ==
    [i \in 1..Len(links) |->
        [address |-> links[i].address, port |-> links[i].port,
         enabled |-> links[i].enabled]]

\* how reading and writing the document goes: "ok"; "error", it cannot be
\* opened or read; "write_error", writing fails after it has been opened
\* for writing ("none": it is not opened)
IoOutcomes == {"ok", "error", "write_error"}

\* the outcomes a save can have on the document st
IoFor(st) == IF st = Damaged THEN {"error"} ELSE IoOutcomes

\* a save that leaves the link list out of the document
_save_config_NoLinks(P, vc, ac, rc, t, io) ==
    IF P.store = None THEN P
    ELSE IF io = "write_error" THEN [P EXCEPT !.store = Damaged]
    ELSE IF io # "ok" THEN P
    ELSE [store |-> Some([P.store[1] EXCEPT
                             !.video_bitrate =
                                 IF vc # None THEN Some(vc[1].bitrate) ELSE @,
                             !.audio_bitrate =
                                 IF ac # None THEN Some(ac[1].bitrate) ELSE @]),
          dirty |-> FALSE,
          last_save |-> t]

\* AdaptiveController._save_config on [store, dirty, last_save]
_save_config(P, vc, ac, rc, t, io) ==
    IF P.store = None THEN P
    ELSE IF io = "write_error" THEN [P EXCEPT !.store = Damaged]
    ELSE IF io # "ok" THEN P
    ELSE [store |-> Some([P.store[1] EXCEPT
                             !.video_bitrate =
                                 IF vc # None THEN Some(vc[1].bitrate) ELSE @,
                             !.audio_bitrate =
                                 IF ac # None THEN Some(ac[1].bitrate) ELSE @,
                             !.links = IF rc # None THEN Some(SavedLinks(rc[1].links)) ELSE @]),
          dirty |-> FALSE,
          last_save |-> t]

----------------------------------------------------------------------------
(* AdaptiveController actions *)

\* the same test without the interval
SaveDue_NoInterval(dirty, t, last, cfg) == dirty

\* the loop's test for the periodic save (lines 208-210): the dirty flag is
\* set and config_save_interval has passed since _last_config_save
SaveDue(dirty, t, last, cfg) ==
    dirty /\ t - last >= cfg.config_save_interval

\* The calls of one iteration that can raise into the except clause of the
\* loop (line 218), in the order the iteration makes them: get_stats (194),
\* get_all_modem_status in _update_modem_stats (198) and in
\* _adaptive_link_control (205), the state callback (216).  The pushes and
\* _save_config catch what is raised inside them.  "none": nothing raises.
FaultAt == [stats |-> 1, modem |-> 2, links |-> 4, callback |-> 6, none |-> 7]

\* step n of the iteration is run and does not raise: 1 _update_rist_stats,
\* 2 _update_modem_stats, 3 _adaptive_bitrate_control,
\* 4 _adaptive_link_control, 5 the periodic save, 6 the state callback
Runs(fault, n) == n < FaultAt[fault]

\* the calls that are made by an iteration in the current configuration
Faults ==
    {"none", "stats"}
    \cup (IF has_monitor THEN {"modem"} ELSE {})
    \cup (IF has_monitor /\ config.adaptive_links_enabled /\ rist_config # None
          THEN {"links"} ELSE {})
    \cup (IF state_callback THEN {"callback"} ELSE {})

\* the try block of one iteration of AdaptiveController._control_loop and the
\* wait after it (lines 192-222).  stats and reports are what the
\* collaborators return in this iteration; fault is the call that raises;
\* the outcome of each push and of the file access is drawn where the
\* iteration gets that far
Iteration(stats, reports, fault) ==
    /\ \E K0 \in {[state |-> IF ~Runs(fault, 1) THEN state
                             ELSE IF has_monitor /\ Runs(fault, 2)
                             THEN _update_modem_stats(
                                      _update_rist_stats(state, stats, video_config,
                                                         audio_config),
                                      reports, config)
                             ELSE _update_rist_stats(state, stats, video_config,
                                                     audio_config),
                   video_config |-> video_config,
                   rist_config |-> rist_config,
                   dirty |-> config_dirty,
                   pushes |-> <<>>]} :
       \E acceptV \in IF Runs(fault, 3) /\ config.adaptive_bitrate_enabled
                         /\ BitrateApplies(K0, config)
                      THEN BOOLEAN ELSE {TRUE} :
       \E K1 \in {IF Runs(fault, 3) /\ config.adaptive_bitrate_enabled
                  THEN _adaptive_bitrate_control(K0, config, now, acceptV)
                  ELSE K0} :
       \E acceptL \in IF Runs(fault, 4) /\ config.adaptive_links_enabled
                         /\ has_monitor /\ LinkApplies(K1, reports, config)
                      THEN BOOLEAN ELSE {TRUE} :
       \E K2 \in {IF Runs(fault, 4) /\ config.adaptive_links_enabled /\ has_monitor
                  THEN _adaptive_link_control(K1, reports, config, acceptL)
                  ELSE K1} :
       \E io \in IF Runs(fault, 5) /\ store # None
                    /\ SaveDue(K2.dirty, now, last_config_save, config)
                 THEN IoFor(store) ELSE {"none"} :
       \E P \in {IF Runs(fault, 5)
                    /\ SaveDue(K2.dirty, now, last_config_save, config)
                 THEN _save_config([store |-> store, dirty |-> K2.dirty,
                                    last_save |-> last_config_save],
                                   K2.video_config, audio_config, K2.rist_config,
                                   now, io)
                 ELSE [store |-> store, dirty |-> K2.dirty,
                       last_save |-> last_config_save]} :
          /\ state' = K2.state
          /\ pushes' = K2.pushes
          /\ sampled' = K0.state
          /\ inputs' = [stats |-> stats, reports |-> reports]
          /\ ret' = Ret("tick", IF fault = "none" THEN "None" ELSE "raise", io)
          /\ video_config' = K2.video_config
          /\ rist_config' = K2.rist_config
          /\ config_dirty' = P.dirty
          /\ store' = P.store
          /\ last_config_save' = P.last_save
          \* an accepted push puts a new object in the place of the one the
          \* caller passed in
          /\ handed_in' =
                 [rist |-> IF /\ handed_in.rist.ref = "attribute"
                              /\ \E k \in 1..Len(K2.pushes) :
                                     K2.pushes[k].kind = "links" /\ K2.pushes[k].accepted
                           THEN OwnObject(rist_config[1]) ELSE handed_in.rist,
                  video |-> IF /\ handed_in.video.ref = "attribute"
                               /\ \E k \in 1..Len(K2.pushes) :
                                      K2.pushes[k].kind = "video" /\ K2.pushes[k].accepted
                            THEN OwnObject(video_config[1]) ELSE handed_in.video]
    /\ callbacks' = IF state_callback /\ FaultAt[fault] >= 6 THEN 1 ELSE 0
    \* line 215 hands self.state to the callback
    /\ handed_out' = IF state_callback /\ FaultAt[fault] >= 6
                     THEN "self.state" ELSE handed_out
    /\ now' = now + config.stats_check_interval
    /\ ticks' = ticks + 1
    /\ UNCHANGED <<audio_config, process, is_streaming, last_error,
                   monitor_thread, stop_monitoring, config, has_monitor,
                   control_thread, stop_event, state_callback, old_monitors>>
    /\ UNCHANGED <<pc, orphans, stopVars>>

\* one iteration of the loop in which nothing raises, taken as one step: the
\* test of the stop event (line 191), the try block and the wait
Tick(stats, reports) ==
    /\ control_thread = "alive"
    /\ ~stop_event
    /\ ticks < MaxTicks
    /\ Iteration(stats, reports, "none")
    /\ UNCHANGED loops

\* TickRaises after which the loop thread is gone
TickRaises_Fatal(stats, reports, fault) ==
    /\ control_thread = "alive"
    /\ ~stop_event
    /\ ticks < MaxTicks
    /\ fault \in Faults \ {"none"}
    /\ ticks' = ticks + 1
    /\ ret' = Ret("tick", "raise", "none")
    /\ inputs' = [stats |-> stats, reports |-> reports]
    /\ callbacks' = 0
    /\ control_thread' = "dead"
    /\ loops' = [loops EXCEPT !.wait = @ - 1]
    /\ UNCHANGED <<mgrVars, config, state, has_monitor, stop_event, config_dirty,
                   last_config_save, store, now, sampled, pushes, state_callback,
                   aliasVars, old_monitors>>
    /\ UNCHANGED <<pc, orphans, stopVars>>

\* one iteration of the loop in which a call raises, taken as one step
TickRaises(stats, reports, fault) ==
    /\ control_thread = "alive"
    /\ ~stop_event
    /\ ticks < MaxTicks
    /\ fault \in Faults \ {"none"}
    /\ Iteration(stats, reports, fault)
    /\ UNCHANGED loops

\* a loop thread finds the stop event clear (line 191) and enters the body
LoopEnter ==
    /\ loops.wait > 0
    /\ ~stop_event
    /\ ticks + loops.body < MaxTicks
    /\ loops' = [wait |-> loops.wait - 1, body |-> loops.body + 1]
    /\ ret' = Ret("loop", "None", "none")
    /\ UNCHANGED <<mgrVars, ctlVars, pc, orphans, stopVars, state_callback,
                   callbacks, aliasVars, old_monitors>>

\* a loop thread runs the body to its end and waits for the next interval
LoopBody(stats, reports, fault) ==
    /\ loops.body > 0
    /\ fault \in Faults
    /\ Iteration(stats, reports, fault)
    /\ loops' = [wait |-> loops.wait + 1, body |-> loops.body - 1]

\* a loop thread finds the stop event set (line 191) and ends
LoopExit ==
    /\ loops.wait > 0
    /\ stop_event
    /\ loops' = [loops EXCEPT !.wait = @ - 1]
    /\ ret' = Ret("loop", "None", "none")
    /\ UNCHANGED <<mgrVars, ctlVars, pc, orphans, stopVars, state_callback,
                   callbacks, aliasVars, old_monitors>>

\* AdaptiveController.start
CtlStart ==
    /\ IF control_thread = "alive"
       THEN /\ ret' = Ret("ctl_start", "False", "none")
            /\ UNCHANGED <<control_thread, stop_event, loops>>
       ELSE IF ~config.enabled
       THEN /\ ret' = Ret("ctl_start", "False", "none")
            /\ UNCHANGED <<control_thread, stop_event, loops>>
       ELSE /\ loops.wait + loops.body < MaxLoops
            /\ stop_event' = FALSE
            /\ control_thread' = "alive"
            /\ loops' = [loops EXCEPT !.wait = @ + 1]
            /\ ret' = Ret("ctl_start", "True", "none")
    /\ UNCHANGED <<mgrVars, config, state, has_monitor, config_dirty,
                   last_config_save, store, now, ticks, inputs, sampled,
                   pushes>>
    /\ UNCHANGED <<pc, orphans, stopVars, state_callback, callbacks, aliasVars,
                   old_monitors>>

\* lines 182-183 of stop(): the last save, if the dirty flag is set
FinalSave(io) ==
    LET P0 == [store |-> store, dirty |-> config_dirty,
               last_save |-> last_config_save]
        P1 == IF config_dirty
              THEN _save_config(P0, video_config, audio_config,
                                rist_config, now, io)
              ELSE P0
    IN /\ config_dirty' = P1.dirty
       /\ store' = P1.store
       /\ last_config_save' = P1.last_save

\* AdaptiveController.stop; the loop thread is waiting for its next
\* iteration and ends within the join
CtlStop(io) ==
    /\ IF control_thread # "alive"
       THEN /\ UNCHANGED <<control_thread, stop_event, config_dirty,
                           last_config_save, store, loops>>
       ELSE /\ loops.wait > 0
            /\ stop_event' = TRUE
            /\ control_thread' = "None"
            /\ loops' = [loops EXCEPT !.wait = @ - 1]
            /\ FinalSave(io)
    /\ ret' = Ret("ctl_stop", "None", io)
    /\ UNCHANGED <<mgrVars, config, state, has_monitor, now, ticks, inputs,
                   sampled, pushes>>
    /\ UNCHANGED <<pc, orphans, stopVars, state_callback, callbacks, aliasVars,
                   old_monitors>>

\* AdaptiveController.stop while the loop thread is inside an iteration that
\* outlasts join(timeout=10.0) (line 178): the handle is dropped, the thread
\* goes on
CtlStopTimeout(io) ==
    /\ control_thread = "alive"
    /\ loops.body > 0
    /\ stop_event' = TRUE
    /\ control_thread' = "None"
    /\ FinalSave(io)
    /\ ret' = Ret("ctl_stop", "None", io)
    /\ UNCHANGED <<mgrVars, config, state, has_monitor, now, ticks, inputs,
                   sampled, pushes>>
    /\ UNCHANGED <<pc, orphans, stopVars, loopVars>>

\* AdaptiveController.get_state: the caller is handed self.state
GetState ==
    /\ handed_out' = "self.state"
    /\ ret' = Ret("get_state", "None", "none")
    /\ UNCHANGED <<mgrVars, ctlVars, pc, orphans, stopVars, loops, state_callback,
                   callbacks, handed_in, old_monitors>>

\* the AdaptiveState object the caller holds, if it holds one: line 506
\* returns, and line 215 passes, the object self.state refers to
HandedOut == IF handed_out = "self.state" THEN Some(state) ELSE None

\* The caller assigns to a field of the AdaptiveState object it was handed
\* (stable_periods = n), which is self.state
CallerSetsState(n) ==
    /\ handed_out = "self.state"
    /\ state' = [state EXCEPT !.stable_periods = n]
    /\ ret' = [Ret("caller", "None", "none") EXCEPT !.arg = n]
    /\ UNCHANGED <<mgrVars, config, has_monitor, control_thread, stop_event,
                   config_dirty, last_config_save, store, now, ticks, inputs,
                   sampled, pushes>>
    /\ UNCHANGED thrVars

\* AdaptiveController.update_config
UpdateConfig(new_config) ==
    /\ config' = new_config
    /\ ret' = Ret("update_config", "None", "none")
    /\ UNCHANGED <<mgrVars, state, has_monitor, control_thread, stop_event,
                   config_dirty, last_config_save, store, now, ticks, inputs,
                   sampled, pushes>>
    /\ UNCHANGED thrVars

----------------------------------------------------------------------------
(* Specifications *)

\* the controller as its constructor leaves it
CtlInit ==
    /\ state = InitialState
    /\ control_thread = "None"
    /\ stop_event = FALSE
    /\ config_dirty = FALSE
    /\ last_config_save = 0
    /\ now = Epoch
    /\ ticks = 0
    /\ inputs = [stats |-> None, reports |-> <<>>]
    /\ sampled = InitialState
    /\ pushes = <<>>
    /\ pc = [t \in Threads |-> "idle"]
    /\ orphans = 0
    /\ signals = <<>>
    /\ waited = 0
    /\ loops = [wait |-> 0, body |-> 0]
    /\ callbacks = 0
    /\ handed_in = [rist |-> NoObject, video |-> NoObject]
    /\ handed_out = "none"
    /\ old_monitors = 0

\* RISTManager() and AdaptiveController(rist_manager, ...) just constructed
Init ==
    /\ rist_config = None
    /\ video_config = None
    /\ audio_config = None
    /\ process = "None"
    /\ is_streaming = FALSE
    /\ last_error = None
    /\ monitor_thread = "None"
    /\ stop_monitoring = FALSE
    /\ ret = Ret("init", "None", "none")
    /\ config = DefaultConfig
    /\ has_monitor = FALSE
    /\ store = None
    /\ state_callback = FALSE
    /\ CtlInit

\* the session manager driven through its API, the controller idle
Next ==
    \/ \E rc \in RistConfigs, mc \in MediaConfigs : Configure(rc, mc[1], mc[2])
    \/ \E launch \in Launches : Start(launch)
    \/ Stop
    \/ \E b \in NewBitrates, launch \in Launches : UpdateBitrate(b, launch)
    \/ ProcessExit
    \/ GetStatus
    \/ \E k \in 1..Len(GstLines) : MonitorLine(k)
    \/ \E polled \in BOOLEAN : MonitorExit(polled)

Spec == Init /\ [][Next]_vars

\* Texts a diagnostic line is made of: the signatures _parse_gst_error looks
\* for, as written in lower, upper and mixed case, a word that contains one
\* ("videos"), the generic marker, and text without any of them
Phrases == <<"no space left on device", "NO SPACE LEFT ON DEVICE",
             "could not open resource", "Connection Refused",
             "internal data flow error", "Internal Data Flow Error",
             "streaming stopped", "EOS", "videos",
             "not negotiated", "NOT NEGOTIATED",
             "no such element", "Failed To Create Element",
             "ERROR", "Error", "WARN latency", "">>

\* n characters of trailing text
RECURSIVE Pad(_)
Pad(n) == IF n = 0 THEN "" ELSE "." \o Pad(n - 1)

\* lengths of the trailing text: none, short, and one that takes every line
\* past MaxErrorLen
PadLens == <<0, MaxErrorLen \div 2, MaxErrorLen>>

NumLines == Len(Phrases) * Len(Phrases) * Len(PadLens)

\* line k handed to _parse_gst_error: two phrases and the trailing text
LineHead(k) == ((k - 1) % Len(Phrases)) + 1
LineTail(k) == (((k - 1) \div Len(Phrases)) % Len(Phrases)) + 1
LinePad(k) == ((k - 1) \div (Len(Phrases) * Len(Phrases))) + 1
LineOf(k) ==
    Phrases[LineHead(k)] \o ": " \o Phrases[LineTail(k)] \o Pad(PadLens[LinePad(k)])

\* what _parse_gst_error returns for each line
ParseResults == [k \in 1..NumLines |-> _parse_gst_error(LineOf(k))]

\* _parse_gst_error called on line k (ret.arg records k, ret.val the message
\* returned, "None" for None).  The function reads and writes no attribute of
\* the manager, so one call on each line covers every call.
ParseLine(k) ==
    /\ ret.op = "init"
    /\ ret' = [Ret("parse",
                   IF ParseResults[k] = None THEN "None" ELSE ParseResults[k][1],
                   "none") EXCEPT !.arg = k]
    /\ UNCHANGED <<mgrVars, ctlVars, thrVars>>

NextParse == \E k \in 1..NumLines : ParseLine(k)

\* _parse_gst_error applied to lines, on a manager as constructed
SpecParse == Init /\ [][NextParse]_vars

\* the session manager, with the command of every start() on record
NextSink ==
    \/ \E rc \in RistConfigs, mc \in MediaConfigs : Configure(rc, mc[1], mc[2])
    \/ \E launch \in Launches : StartPipeline(launch)
    \/ Stop
    \/ ProcessExit
    \/ GetStatus

SpecSink == Init /\ [][NextSink]_vars

\* the manager as configure(rc, vc, ac) leaves it
Configured(rc, vc, ac) ==
    /\ rist_config = Some(rc)
    /\ video_config = vc
    /\ audio_config = ac
    /\ process = "None"
    /\ is_streaming = FALSE
    /\ last_error = None
    /\ monitor_thread = "None"
    /\ stop_monitoring = FALSE
    /\ ret = Ret("configure", "None", "none")

\* MaxLinks links, all enabled (the default of RISTLink)
AllEnabled == RISTConfig([i \in 1..MaxLinks |-> Link(i, TRUE)])

\* the controller constructed without a link-quality monitor on a configured
\* manager: the bitrate policy alone
InitBitrate ==
    /\ \E mc \in MediaConfigs : Configured(AllEnabled, mc[1], mc[2])
    /\ config \in Configs
    /\ has_monitor = FALSE
    /\ store \in InitialStores
    /\ state_callback = FALSE
    /\ CtlInit

NextBitrate ==
    \/ CtlStart
    \/ \E stats \in StatsSamples : Tick(stats, <<>>)
    \/ \E io \in IF control_thread = "alive" /\ config_dirty /\ store # None
                 THEN IoFor(store) ELSE {"none"} : CtlStop(io)
    \/ \E c \in Configs : UpdateConfig(c)

SpecBitrate == InitBitrate /\ [][NextBitrate]_vars

\* the bitrate policy switched off in the configuration
LinkConfig == [DefaultConfig EXCEPT !.adaptive_bitrate_enabled = FALSE]

\* the manager as configure(rc, vc, ac) and a start() that succeeded leave it
Streaming(rc, vc, ac) ==
    /\ rist_config = Some(rc)
    /\ video_config = vc
    /\ audio_config = ac
    /\ process = "alive"
    /\ is_streaming = TRUE
    /\ last_error = None
    /\ monitor_thread = "alive"
    /\ stop_monitoring = FALSE
    /\ ret = Ret("start", "True", "alive")

\* the controller constructed with a link-quality monitor and the bitrate
\* policy switched off, on a session that is streaming: the link policy alone
InitLinks ==
    /\ Streaming(AllEnabled, Some(VideoConfig(2000000)),
                 Some([bitrate |-> AudioBitrate]))
    /\ config = LinkConfig
    /\ has_monitor = TRUE
    /\ store \in InitialStores
    /\ state_callback = FALSE
    /\ CtlInit

NextLinks ==
    \/ CtlStart
    \/ \E reports \in ModemReports :
           Tick(Some([sent_original_packets |-> 100,
                      sent_retransmitted_packets |-> 1]), reports)
    \/ \E io \in IF control_thread = "alive" /\ config_dirty /\ store # None
                 THEN IoFor(store) ELSE {"none"} : CtlStop(io)

SpecLinks == InitLinks /\ [][NextLinks]_vars

\* the configurations that gate the bitrate policy: the policy on, the
\* decrease on bad statistics off, the policy off
GateConfigs == {QuickConfig, DeferredConfig,
                [QuickConfig EXCEPT !.adaptive_bitrate_enabled = FALSE]}

InitGate ==
    /\ \E mc \in MediaConfigs : Configured(AllEnabled, mc[1], mc[2])
    /\ config \in GateConfigs
    /\ has_monitor = FALSE
    /\ store = None
    /\ state_callback = FALSE
    /\ CtlInit

NextGate ==
    \/ CtlStart
    \/ \E stats \in StatsSamples : Tick(stats, <<>>)
    \/ \E c \in GateConfigs : UpdateConfig(c)

\* the bitrate policy with its switches thrown while the loop runs
SpecGate == InitGate /\ [][NextGate]_vars

\* link thresholds in the default order, equal, and crossed (a link is
\* enabled from a signal below the one that disables it)
ThresholdConfigs ==
    {LinkConfig,
     [LinkConfig EXCEPT !.link_disable_signal_threshold = 30,
                        !.link_enable_signal_threshold = 30],
     [LinkConfig EXCEPT !.link_disable_signal_threshold = 40,
                        !.link_enable_signal_threshold = 20]}

\* ModemMonitor.get_all_modem_status() for two modems, each connected or
\* not, in either order
ModemSamples ==
    {<<>>} \cup
    {<<[id |-> p[1], status |-> Reading(c, s)],
       [id |-> p[2], status |-> Reading(d, t)]>> :
        p \in {<<1, 2>>, <<2, 1>>}, c \in BOOLEAN, d \in BOOLEAN,
        s \in Signals, t \in Signals}

InitModem ==
    /\ Streaming(AllEnabled, Some(VideoConfig(2000000)),
                 Some([bitrate |-> AudioBitrate]))
    /\ config \in ThresholdConfigs
    /\ has_monitor = TRUE
    /\ store = None
    /\ state_callback = FALSE
    /\ CtlInit

\* _update_modem_stats called with the monitor reporting reports (line 198)
Sample(reports) ==
    /\ has_monitor
    /\ state' = _update_modem_stats(state, reports, config)
    /\ inputs' = [inputs EXCEPT !.reports = reports]
    /\ ret' = Ret("sample", "None", "none")
    /\ UNCHANGED <<mgrVars, config, has_monitor, control_thread, stop_event,
                   config_dirty, last_config_save, store, now, ticks, sampled,
                   pushes, thrVars>>

NextModem == \E reports \in ModemSamples : Sample(reports)

\* the sampling of link quality alone
SpecModem == InitModem /\ [][NextModem]_vars

\* two threads calling start(), stop() and update_bitrate() on a configured
\* manager, the controller idle
InitThreads ==
    /\ Configured(AllEnabled, Some(VideoConfig(2000000)),
                  Some([bitrate |-> AudioBitrate]))
    /\ config = DefaultConfig
    /\ has_monitor = FALSE
    /\ store = None
    /\ state_callback = FALSE
    /\ CtlInit

NextThreads ==
    \/ \E t \in Threads : StartEnter(t)
    \/ \E t \in Threads, launch \in {"oserror", "alive"} : StartLaunch(t, launch)
    \/ \E t \in Threads : StartGrace(t)
    \/ \E t \in Threads : StopEnter(t)
    \/ \E t \in Threads : StopFinish(t)
    \/ \E t \in Threads, b \in NewBitrates : UbEnter(t, b)
    \/ \E t \in Threads : UbStop(t)
    \/ ProcessExit
    \/ OrphanExit

SpecThreads == InitThreads /\ [][NextThreads]_vars

\* one caller starting and stopping a configured session, stop() taken
\* step by step
InitStop ==
    /\ \E mc \in MediaConfigs : Configured(AllEnabled, mc[1], mc[2])
    /\ config = DefaultConfig
    /\ has_monitor = FALSE
    /\ store = None
    /\ state_callback = FALSE
    /\ CtlInit

NextStop ==
    \/ \E launch \in Launches : pc["caller"] = "idle" /\ Start(launch)
    \/ StopEnter("caller")
    \/ StopInterrupt("caller")
    \/ StopWaitTick("caller")
    \/ StopWaited("caller")
    \/ StopKill("caller")
    \/ ProcessExit
    \/ GetStatus
    \/ \E k \in 1..Len(GstLines) : MonitorLine(k)
    \/ \E polled \in BOOLEAN : MonitorExit(polled)

\* the caller's thread keeps running, time passes, and a killed process ends
SpecStop ==
    /\ InitStop /\ [][NextStop]_vars
    /\ WF_vars(StopInterrupt("caller"))
    /\ WF_vars(StopWaitTick("caller"))
    /\ WF_vars(StopWaited("caller"))
    /\ WF_vars(StopKill("caller"))
    /\ WF_vars(Killed)

\* the statistics of a quiet and of a lossy interval
QuietStats == Some([sent_original_packets |-> 100, sent_retransmitted_packets |-> 0])
LossyStats == Some([sent_original_packets |-> 100, sent_retransmitted_packets |-> 7])

\* the controller started and stopped while its loop threads run step by
\* step: a thread can be inside an iteration when stop() and start() are
\* called
InitLoop ==
    /\ Configured(AllEnabled, Some(VideoConfig(2000000)),
                  Some([bitrate |-> AudioBitrate]))
    /\ config = QuickConfig
    /\ has_monitor = FALSE
    /\ store \in InitialStores
    /\ state_callback \in BOOLEAN
    /\ CtlInit

NextLoop ==
    \/ CtlStart
    \/ \E io \in IF control_thread = "alive" /\ config_dirty /\ store # None
                 THEN IoFor(store) ELSE {"none"} : CtlStop(io)
    \/ \E io \in IF config_dirty /\ store # None
                 THEN IoFor(store) ELSE {"none"} : CtlStopTimeout(io)
    \/ \E c \in {QuickConfig, DisabledConfig} : UpdateConfig(c)
    \/ LoopEnter
    \/ \E stats \in {QuietStats, LossyStats}, fault \in Faults :
           LoopBody(stats, <<>>, fault)
    \/ LoopExit

SpecLoop == InitLoop /\ [][NextLoop]_vars

\* two modems reported, the second with a weak signal
WeakReport == <<[id |-> 1, status |-> Reading(TRUE, 60)],
                [id |-> 2, status |-> Reading(TRUE, 15)]>>

\* the controller, with or without a link-quality monitor and a state
\* callback, whose collaborators may raise inside an iteration; there is no
\* document at config_path, so _save_config returns at line 464
InitFaults ==
    /\ Configured(AllEnabled, Some(VideoConfig(2000000)),
                  Some([bitrate |-> AudioBitrate]))
    /\ config = QuickConfig
    /\ has_monitor \in BOOLEAN
    /\ store = None
    /\ state_callback \in BOOLEAN
    /\ CtlInit

\* the loop thread runs an iteration
LoopRuns ==
    \E stats \in {QuietStats, LossyStats},
       reports \in IF has_monitor THEN {WeakReport} ELSE {<<>>} :
        \/ Tick(stats, reports)
        \/ \E fault \in Faults \ {"none"} : TickRaises(stats, reports, fault)

NextFaults ==
    \/ CtlStart
    \/ LoopRuns
    \/ \E io \in IF control_thread = "alive" /\ config_dirty /\ store # None
                 THEN IoFor(store) ELSE {"none"} : CtlStop(io)

SpecFaults == InitFaults /\ [][NextFaults]_vars

\* a session configured with no field at its default: weighted links on
\* their own ports, round-robin bonding, longer buffers, H.265 video with a
\* long GOP
TunedRist ==
    [links |-> <<RISTLink(1, 6000, TRUE, 30), RISTLink(2, 6002, TRUE, 70)>>,
     bonding_method |-> "round-robin",
     sender_buffer |-> 2000, receiver_buffer |-> 2500, reorder_buffer |-> 50,
     rtt_min |-> 20, rtt_max |-> 900, fec_rows |-> 8, fec_columns |-> 10,
     max_retries |-> 3]

TunedVideo ==
    [codec |-> "h265", width |-> 1920, height |-> 1080, framerate |-> 25,
     bitrate |-> 2000000, keyframe_interval |-> 120]

InitPush ==
    /\ Streaming(TunedRist, Some(TunedVideo), Some([bitrate |-> AudioBitrate]))
    /\ config = QuickConfig
    /\ has_monitor = TRUE
    /\ store = None
    /\ state_callback = FALSE
    /\ CtlInit

NextPush ==
    \/ CtlStart
    \/ \E stats \in {QuietStats, LossyStats},
          reports \in {WeakReport, <<>>} : Tick(stats, reports)

\* both policies at work on the tuned session
SpecPush == InitPush /\ [][NextPush]_vars

\* the manager and the controller just constructed, the controller with a
\* link-quality monitor
InitAlias ==
    /\ rist_config = None
    /\ video_config = None
    /\ audio_config = None
    /\ process = "None"
    /\ is_streaming = FALSE
    /\ last_error = None
    /\ monitor_thread = "None"
    /\ stop_monitoring = FALSE
    /\ ret = Ret("init", "None", "none")
    /\ config = QuickConfig
    /\ has_monitor = TRUE
    /\ store = None
    /\ state_callback = FALSE
    /\ CtlInit

\* a caller that keeps the objects it configured the manager with and
\* assigns to them, while the session is reconfigured
NextAlias ==
    \/ Configure(AllEnabled, Some(VideoConfig(2000000)),
                 Some([bitrate |-> AudioBitrate]))
    \/ Start("alive")
    \/ Stop
    \/ UpdateBitrate(1000000, "alive")
    \/ CallerSetsBitrate(3000000)
    \/ \E i \in 1..MaxLinks : CallerSetsLink(i, FALSE)
    \/ CtlStart
    \/ is_streaming /\ Tick(LossyStats, WeakReport)

SpecAlias == InitAlias /\ [][NextAlias]_vars

\* the controller on a running session, with or without a state callback
InitState ==
    /\ Streaming(AllEnabled, Some(VideoConfig(2000000)),
                 Some([bitrate |-> AudioBitrate]))
    /\ config = QuickConfig
    /\ has_monitor = FALSE
    /\ store = None
    /\ state_callback \in BOOLEAN
    /\ CtlInit

\* a caller that asks for the state, or receives it through the callback,
\* keeps it and assigns to it, while the loop runs
NextState ==
    \/ CtlStart
    \/ \E stats \in {QuietStats, LossyStats} : Tick(stats, <<>>)
    \/ GetState
    \/ \E n \in {0, 5} : CallerSetsState(n)
    \/ CtlStop("none")

SpecState == InitState /\ [][NextState]_vars

\* sessions started and stopped while their monitor threads read the
\* diagnostic stream, the join of stop() succeeding or timing out
NextMonitor ==
    \/ Configure(AllEnabled, Some(VideoConfig(2000000)),
                 Some([bitrate |-> AudioBitrate]))
    \/ /\ monitor_thread = "alive" => old_monitors < MaxOrphans
       /\ \E launch \in Launches : Start(launch)
    \/ Stop
    \/ StopJoinTimeout
    \/ ProcessExit
    \/ GetStatus
    \/ \E k \in 1..Len(GstLines) : MonitorLine(k)
    \/ \E polled \in BOOLEAN : MonitorExit(polled)
    \/ \E k \in 1..Len(GstLines) : StoppedMonitorLine(k)
    \/ StoppedMonitorExit
    \/ \E k \in 1..Len(GstLines) : OldMonitorLine(k)
    \/ OldMonitorExit

SpecMonitor == Init /\ [][NextMonitor]_vars

----------------------------------------------------------------------------
(* Claims about the session manager, under Spec *)

\* C1: a start() whose process has already exited when poll() runs after the
\* grace interval returns False, leaves the session configured and not
\* streaming, leaves the monitor thread as it was (none is started) and
\* leaves last_error set.
C1_LaunchFailure ==
    [][(ret'.op = "start" /\ ret'.env = "exited") =>
        /\ ret'.val = "False"
        /\ ~is_streaming'
        /\ rist_config' # None
        /\ monitor_thread' = monitor_thread
        /\ monitor_thread' # "alive"
        /\ last_error' # None]_vars

\* C1 witness: start() has just failed on a two-link configuration because
\* the process was gone at the grace check
C1_Witness ==
    /\ ret = Ret("start", "False", "exited")
    /\ rist_config # None
    /\ Len(rist_config[1].links) >= 2
    /\ ~is_streaming
    /\ last_error = Some(ErrLaunch)

\* C2: whenever stop() is called after a start() that succeeded (the session
\* is streaming), the session is not streaming and the process handle is
\* cleared when stop() returns.
C2_StopClears ==
    [][(ret'.op = "stop" /\ is_streaming) =>
        (~is_streaming' /\ process' = "None")]_vars

\* C3: stop() on a session whose pipeline process is running (or has ended
\* without having been reaped) returns True, and a stop() right after a
\* stop() that returned True returns False and changes nothing of the
\* manager: not the streaming flag, the process handle or last_error.
C3_StopTwice ==
    [][(ret'.op = "stop") =>
        /\ (is_streaming /\ process \in {"alive", "exited"}) => ret'.val = "True"
        /\ (ret.op = "stop" /\ ret.val = "True") =>
              (ret'.val = "False" /\ UNCHANGED mgrVars)]_vars

\* C3 witness: the second of two stop() calls has returned on a session that
\* had been started (its monitor thread exists) and stopped
C3_Witness ==
    /\ ret = Ret("stop", "False", "none")
    /\ monitor_thread = "dead"
    /\ process = "None"
    /\ ~is_streaming
    /\ rist_config # None

----------------------------------------------------------------------------
(* Claims about the bitrate policy and the final save, under SpecBitrate. *)
(* A step with ticks' = ticks + 1 is one iteration of the control loop;    *)
(* sampled' is the AdaptiveState the policy met in it and pushes' the      *)
(* pushes it made.                                                         *)

\* C4: in an iteration with immediate_decrease set and a sampled packet
\* loss above packet_loss_threshold_high, a video bitrate above
\* min_video_bitrate strictly decreases (never below the floor) and a video
\* bitrate at min_video_bitrate stays as it is.  (A strictly decreasing
\* integer bounded below reaches the floor after finitely many iterations.)
C4_Monotone ==
    [][(/\ ticks' = ticks + 1
        /\ config.adaptive_bitrate_enabled /\ config.immediate_decrease
        /\ inputs'.stats # None
        /\ video_config # None
        /\ sampled'.current_packet_loss > config.packet_loss_threshold_high) =>
        LET b == video_config[1].bitrate
        IN /\ video_config' # None
           /\ b > config.min_video_bitrate =>
                  /\ video_config'[1].bitrate < b
                  /\ video_config'[1].bitrate >= config.min_video_bitrate
           /\ b = config.min_video_bitrate => video_config'[1].bitrate = b]_vars

\* C5: in an iteration of the bitrate policy with a sampled packet loss below
\* packet_loss_threshold_low (thresholds in order: low <= high) and the
\* bitrate below max_video_bitrate, N being stable_periods_before_increase:
\* (1) if the iteration before it sampled a loss at or above the low
\*     threshold, this is the first of a run of qualifying iterations and,
\*     for N > 1, no increase is pushed;
\* (2) while the stability counter has not reached N - 1 before the
\*     iteration, no increase is pushed;
\* (3) when the counter stands at N - 1 before it, exactly one push is made,
\*     of min(current * (1 + bitrate_step_up), max_video_bitrate), the
\*     bitrate is that value once the manager has taken the push, and the
\*     counter is 0 afterwards.
C5_StabilityGating ==
    [][(/\ ticks' = ticks + 1
        /\ config.adaptive_bitrate_enabled
        /\ config.packet_loss_threshold_low <= config.packet_loss_threshold_high
        /\ inputs'.stats # None
        /\ video_config # None
        /\ sampled'.current_packet_loss < config.packet_loss_threshold_low
        /\ video_config[1].bitrate < config.max_video_bitrate) =>
        LET b == video_config[1].bitrate
            N == config.stable_periods_before_increase
            up == (b * (100 + config.bitrate_step_up)) \div 100
            want == IF up <= config.max_video_bitrate
                    THEN up ELSE config.max_video_bitrate
        IN /\ (/\ ret.op = "tick" /\ inputs.stats # None
               /\ sampled.current_packet_loss >= config.packet_loss_threshold_low
               /\ N > 1) =>
                  (pushes' = <<>> /\ video_config' = video_config)
           /\ state.stable_periods + 1 < N =>
                  (pushes' = <<>> /\ video_config' = video_config)
           /\ state.stable_periods + 1 = N =>
                  /\ Len(pushes') = 1
                  /\ pushes'[1].kind = "video"
                  /\ pushes'[1].bitrate = want
                  /\ pushes'[1].accepted => video_config' = Some(VideoConfig(want))
                  /\ state'.stable_periods = 0]_vars

\* C6: an iteration makes at most one bitrate push, and in an iteration
\* where both the decrease condition (loss above the high threshold with
\* immediate_decrease set) and the increase condition (loss below the low
\* threshold, bitrate below the ceiling, stability count reached with this
\* iteration) hold, no push raises the bitrate, the bitrate does not rise,
\* total_bitrate_increases keeps its value and the stability counter is not
\* incremented.
C6_DecreasePriority ==
    [][(ticks' = ticks + 1 /\ config.adaptive_bitrate_enabled) =>
        LET st == sampled'
            b == st.current_video_bitrate
            both ==
                /\ b # 0
                /\ st.current_packet_loss > config.packet_loss_threshold_high
                /\ config.immediate_decrease
                /\ st.current_packet_loss < config.packet_loss_threshold_low
                /\ b < config.max_video_bitrate
                /\ st.stable_periods + 1 >= config.stable_periods_before_increase
        IN /\ Len(pushes') <= 1
           /\ both =>
                  /\ \A i \in 1..Len(pushes') : pushes'[i].bitrate < b
                  /\ video_config # None =>
                         video_config'[1].bitrate <= video_config[1].bitrate
                  /\ state'.total_bitrate_increases = state.total_bitrate_increases
                  /\ state'.stable_periods <= state.stable_periods]_vars

\* C6 witness: with overlapping thresholds, an iteration that sampled 7 %
\* loss at 2000000 bit/s with the stability count about to be reached has
\* pushed the decrease and nothing else
C6_Witness ==
    /\ ret.op = "tick"
    /\ config = OverlapConfig
    /\ sampled.current_packet_loss = 700
    /\ sampled.current_video_bitrate = 2000000
    /\ sampled.stable_periods + 1 >= config.stable_periods_before_increase
    /\ pushes = <<Push("video", 1700000, <<>>, TRUE)>>
    /\ video_config = Some(VideoConfig(1700000))
    /\ state.total_bitrate_increases = 0
    /\ state.total_bitrate_decreases = 1

\* C9: when the decrease branch is taken at bitrate current, the bitrate it
\* asks for is max(floor(current * (1 - bitrate_step_down)),
\* min_video_bitrate); if that is below current it is the one bitrate pushed,
\* and the manager's bitrate is exactly it once the push is taken.  With
\* step_down 0.15, floor 500000, current 2000000 and 7 % loss against a 5 %
\* threshold that bitrate is 1700000.
C9_DecreaseArithmetic ==
    [][(/\ ticks' = ticks + 1
        /\ config.adaptive_bitrate_enabled /\ config.immediate_decrease
        /\ sampled'.current_video_bitrate # 0
        /\ sampled'.current_packet_loss > config.packet_loss_threshold_high) =>
        LET current == sampled'.current_video_bitrate
            down == (current * (100 - config.bitrate_step_down)) \div 100
            want == IF down >= config.min_video_bitrate
                    THEN down ELSE config.min_video_bitrate
        IN /\ want < current =>
                  /\ Len(pushes') = 1
                  /\ pushes'[1].kind = "video"
                  /\ pushes'[1].bitrate = want
                  /\ pushes'[1].accepted => video_config' = Some(VideoConfig(want))
           /\ want >= current => pushes' = <<>>
           /\ (/\ current = 2000000 /\ sampled'.current_packet_loss = 700
               /\ config.bitrate_step_down = 15
               /\ config.min_video_bitrate = 500000
               /\ config.packet_loss_threshold_high = 500) =>
                  pushes'[1].bitrate = 1700000]_vars

\* C9 witness: the example has run and the manager has taken the push
C9_Witness ==
    /\ ret.op = "tick"
    /\ config.bitrate_step_down = 15
    /\ config.min_video_bitrate = 500000
    /\ config.packet_loss_threshold_high = 500
    /\ inputs.stats = Some([sent_original_packets |-> 100,
                            sent_retransmitted_packets |-> 7])
    /\ sampled.current_packet_loss = 700
    /\ sampled.current_video_bitrate = 2000000
    /\ pushes = <<Push("video", 1700000, <<>>, TRUE)>>
    /\ video_config = Some(VideoConfig(1700000))

\* C8 as stated: whenever AdaptiveController.stop() is called on a running
\* controller with the dirty flag set, then when it returns the dirty flag
\* is clear and the document holds the manager's video bitrate, audio
\* bitrate and link list.
C8_FlushAlways ==
    [][(ret'.op = "ctl_stop" /\ control_thread = "alive" /\ config_dirty) =>
        /\ ~config_dirty'
        /\ store' # None
        /\ video_config # None =>
               store'[1].video_bitrate = Some(video_config[1].bitrate)
        /\ audio_config # None =>
               store'[1].audio_bitrate = Some(audio_config[1].bitrate)
        /\ rist_config # None =>
               store'[1].links = Some(SavedLinks(rist_config[1].links))]_vars

\* C8 amended: AdaptiveController.stop() called between two iterations on a
\* running controller with the dirty flag set makes one save.  If the
\* document exists and is read and written without error, then when stop()
\* returns the dirty flag is clear and the document holds the manager's
\* video bitrate, audio bitrate and link list, with its other content
\* untouched; otherwise the dirty flag is still set and the document is as it
\* was (still missing, if it was), unless writing it failed after it had been
\* opened for writing, which leaves it truncated.
C8_FinalFlush ==
    [][(ret'.op = "ctl_stop" /\ control_thread = "alive" /\ config_dirty) =>
        IF store # None /\ ret'.env = "ok"
        THEN /\ ~config_dirty'
             /\ store' # None
             /\ store'[1].other = store[1].other
             /\ video_config # None =>
                    store'[1].video_bitrate = Some(video_config[1].bitrate)
             /\ audio_config # None =>
                    store'[1].audio_bitrate = Some(audio_config[1].bitrate)
             /\ rist_config # None =>
                    store'[1].links = Some(SavedLinks(rist_config[1].links))
        ELSE /\ config_dirty'
             /\ IF store # None /\ ret'.env = "write_error"
                THEN store' = Damaged ELSE store' = store]_vars

\* C8 witness: stop() has just flushed a bitrate change made within
\* config_save_interval of the last periodic save
C8_Witness ==
    /\ ret = Ret("ctl_stop", "None", "ok")
    /\ control_thread = "None" /\ stop_event
    /\ ~config_dirty
    /\ video_config = Some(VideoConfig(1445000))
    /\ store # None
    /\ store[1].video_bitrate = Some(1445000)
    /\ store[1].links = Some(SavedLinks(rist_config[1].links))
    /\ last_config_save = now
    /\ last_config_save < Epoch + config.config_save_interval

----------------------------------------------------------------------------
(* Claims about the link policy, under SpecLinks.  The reading of a link   *)
(* is the status reported for the connected modem whose id is the link's  *)
(* address.                                                                *)

\* C7: in an iteration of the link policy, a link whose own signal lies
\* strictly between link_disable_signal_threshold and
\* link_enable_signal_threshold keeps its enabled flag, and a disabled link
\* whose own signal is below link_enable_signal_threshold stays disabled,
\* whatever is reported for the other links: this holds of every link list
\* the iteration pushes and of the manager's link list after it.
C7_Hysteresis ==
    [][(/\ ticks' = ticks + 1
        /\ config.adaptive_links_enabled /\ has_monitor
        /\ rist_config # None) =>
        LET links == rist_config[1].links
            reports == inputs'.reports
            Keeps(i, list) ==
                \A j \in 1..Len(reports) :
                    (reports[j].id = links[i].address
                         /\ reports[j].status.connected) =>
                        LET sig == reports[j].status.signal_strength
                        IN /\ (/\ sig >= config.link_disable_signal_threshold
                               /\ sig < config.link_enable_signal_threshold) =>
                                  list[i].enabled = links[i].enabled
                           /\ (/\ ~links[i].enabled
                               /\ sig < config.link_enable_signal_threshold) =>
                                  ~list[i].enabled
        IN \A i \in 1..Len(links) :
               /\ Keeps(i, rist_config'[1].links)
               /\ \A k \in 1..Len(pushes') :
                      pushes'[k].kind = "links" => Keeps(i, pushes'[k].links)]_vars

\* C10: every link list the link policy pushes has each link's flag set from
\* that link's own reading (below the disable threshold: disabled; at or
\* above the enable threshold: enabled); with links 1 and 2 enabled,
\* thresholds 20 and 40 and the readings 1: 15 and 2: 60 reported in either
\* order, a list is pushed and it has link 1 disabled and link 2 enabled.
C10_PerLinkDecision ==
    [][(/\ ticks' = ticks + 1
        /\ config.adaptive_links_enabled /\ has_monitor
        /\ rist_config # None) =>
        LET links == rist_config[1].links
            reports == inputs'.reports
            Own(list) ==
                \A i \in 1..Len(links), j \in 1..Len(reports) :
                    (reports[j].id = links[i].address
                         /\ reports[j].status.connected) =>
                        LET sig == reports[j].status.signal_strength
                        IN /\ sig < config.link_disable_signal_threshold =>
                                  ~list[i].enabled
                           /\ sig >= config.link_enable_signal_threshold =>
                                  list[i].enabled
        IN /\ \A k \in 1..Len(pushes') :
                  pushes'[k].kind = "links" => Own(pushes'[k].links)
           /\ (/\ Len(links) >= 2
               /\ links[1].enabled /\ links[2].enabled
               /\ config.link_disable_signal_threshold = 20
               /\ config.link_enable_signal_threshold = 40
               /\ ToSet(reports) = {[id |-> 1, status |-> Reading(TRUE, 15)],
                                    [id |-> 2, status |-> Reading(TRUE, 60)]}) =>
                  /\ Len(pushes') = 1
                  /\ pushes'[1].kind = "links"
                  /\ ~pushes'[1].links[1].enabled
                  /\ pushes'[1].links[2].enabled]_vars

\* C11: whenever the session is streaming its transport configuration has
\* at least one enabled link, and every link list the link policy pushes
\* has at least one enabled link.
C11_EnabledLink ==
    /\ (is_streaming /\ rist_config # None) =>
           \E i \in 1..Len(rist_config[1].links) : rist_config[1].links[i].enabled
    /\ \A k \in 1..Len(pushes) :
           pushes[k].kind = "links" =>
               \E i \in 1..Len(pushes[k].links) : pushes[k].links[i].enabled

\* C12: after every iteration of the control loop in which the bitrate
\* policy is switched on and has statistics to work on, the manager's video
\* bitrate lies within [min_video_bitrate, max_video_bitrate], whatever
\* bitrate the session was configured with.
C12_BitrateInRange ==
    (/\ ret.op = "tick" /\ config.adaptive_bitrate_enabled
     /\ inputs.stats # None /\ video_config # None) =>
        /\ video_config[1].bitrate >= config.min_video_bitrate
        /\ video_config[1].bitrate <= config.max_video_bitrate

----------------------------------------------------------------------------
(* Further claims about the session manager, under Spec *)

\* C13: configure() called while the session is streaming returns a failure
\* result, raising nothing to the caller, and leaves the stored transport,
\* video and audio configuration and the process as they are.
C13_ConfigureWhileRunning ==
    [][(ret'.op = "configure" /\ is_streaming) =>
        /\ ret'.val # "raise"
        /\ UNCHANGED mgrVars]_vars

\* C14: start() called on a manager that has never been configured returns
\* a failure result, raising nothing to the caller, with last_error set; no
\* process is launched and the session is not streaming.
C14_StartUnconfigured ==
    [][(ret'.op = "start" /\ rist_config = None) =>
        /\ ret'.val = "False"
        /\ last_error' # None
        /\ process' = process
        /\ ~is_streaming']_vars

\* C15: start() called while the session is streaming returns False and
\* changes nothing of the manager: no process is launched, no monitor
\* thread is started, and the process handle, the streaming flag and
\* last_error keep their values.
C15_StartWhileRunning ==
    [][(ret'.op = "start" /\ is_streaming) =>
        /\ ret'.val = "False"
        /\ ret'.env = "none"
        /\ UNCHANGED mgrVars]_vars

\* C15 witness: start() has just been refused on a session that streams
\* with its process alive and its monitor thread running
C15_Witness ==
    /\ ret = Ret("start", "False", "none")
    /\ is_streaming
    /\ process = "alive"
    /\ monitor_thread = "alive"
    /\ rist_config # None

\* C16: once the pipeline process has ended by itself and the monitor thread
\* has left its loop, get_status() reports the session as not streaming and
\* configure() is accepted.
C16_CrashLeavesRunning ==
    [][(process \in {"exited", "reaped"} /\ monitor_thread = "dead") =>
        /\ ret'.op = "get_status" => ~is_streaming'
        /\ ret'.op = "configure" => ret'.val = "None"]_vars

\* C19: update_bitrate(b) on a manager with a video configuration stores b;
\* on a session that is not streaming it returns True and touches neither the
\* process nor the flag; on a streaming session it returns what start()
\* returns after stop(), and when that is True a process has been launched by
\* this call, after b was stored, and the session is streaming.
C19_UpdateBitrate ==
    [][(ret'.op = "update_bitrate" /\ video_config # None) =>
        LET m1 == [Mgr EXCEPT !.video_config =
                                  Some([@[1] EXCEPT !.bitrate = ret'.arg])]
        IN  /\ video_config' = m1.video_config
            /\ ~is_streaming =>
                   /\ ret'.val = "True"
                   /\ UNCHANGED <<process, is_streaming, monitor_thread,
                                  stop_monitoring, last_error>>
            /\ is_streaming =>
                   /\ \E launch \in Launches :
                          /\ ret'.val = start(stop(m1).m, launch).val
                          /\ is_streaming' = start(stop(m1).m, launch).m.is_streaming
                          /\ process' = start(stop(m1).m, launch).m.process
                   /\ ret'.val = "True" =>
                          /\ ret'.env = "alive" /\ process' = "alive"
                          /\ is_streaming' /\ monitor_thread' = "alive"]_vars

\* a running session restarted by update_bitrate with the new bitrate
C19_Witness ==
    /\ ret.op = "update_bitrate" /\ ret.val = "True" /\ ret.env = "alive"
    /\ is_streaming /\ process = "alive"
    /\ video_config # None /\ video_config[1].bitrate = ret.arg
    /\ ret.arg \in NewBitrates

\* C18: a fresh configure()/start() cycle clears last_error: when start()
\* succeeds right after an accepted configure(), the session holds no error
\* (so get_status() reports none until the new session records one).
C18_FreshCycleClearsError ==
    [][(/\ ret.op = "configure" /\ ret.val = "None"
        /\ ret'.op = "start" /\ ret'.val = "True") =>
           last_error' = None]_vars

----------------------------------------------------------------------------
(* Claims about concurrent callers, under SpecThreads *)

\* C17: under every interleaving of start(), stop() and update_bitrate()
\* run by two threads, no launched process is running without self.process
\* referring to it, and the two threads are never both past the launch in
\* start().
C17_OneProcess ==
    /\ orphans = 0
    /\ ~(\A t \in Threads : pc[t] = "start_grace")

----------------------------------------------------------------------------
(* Claims about stop(), under SpecStop *)

\* C20: stop() on a running session terminates; it sends SIGKILL only after
\* it has sent SIGINT and the five seconds of waiting have expired; and when
\* it returns True the process had ended.
C20_ShutdownEscalation ==
    /\ \A t \in Threads :
           (pc[t] \in {"stop_signal", "stop_wait", "stop_killed"}) ~> (pc[t] = "idle")
    /\ [][/\ (signals' # signals /\ signals' # <<>>
              /\ signals'[Len(signals')] = "SIGKILL") =>
                 /\ signals = <<"SIGINT">>
                 /\ waited = StopTimeout
          /\ (ret'.op = "stop" /\ ret'.val = "True" /\ ret' # ret) =>
                 /\ process \in {"exited", "reaped"}
                 /\ process' = "None" /\ ~is_streaming']_vars

\* stop() has returned True after the interrupt, five seconds and the kill
C20_Witness ==
    /\ ret = Ret("stop", "True", "none")
    /\ signals = <<"SIGINT", "SIGKILL">>
    /\ waited = StopTimeout
    /\ process = "None" /\ ~is_streaming
    /\ pc["caller"] = "idle"

----------------------------------------------------------------------------
(* Claims about persistence, under SpecBitrate *)

\* C25: a save (periodic or final) of an existing document leaves every
\* key and value other than the controller's own (video bitrate, audio
\* bitrate, link list) present and equal, and a save that fails leaves the
\* dirty flag set.
C25_SaveFrame ==
    [][(ret'.op \in {"tick", "ctl_stop"} /\ ret'.env # "none" /\ store # None) =>
        /\ store' # None
        /\ store'[1].other = store[1].other
        /\ ret'.env # "ok" => config_dirty']_vars

\* C29: an iteration of the loop writes the document only if the dirty
\* flag is set when the loop tests it (it was set before the iteration or an
\* accepted push of the iteration set it) and at least config_save_interval
\* has passed since the last successful save; a successful write clears the
\* dirty flag and records the time of the save.
C29_PeriodicSave ==
    [][(ticks' = ticks + 1) =>
        /\ (store' # store \/ ret'.env \in {"ok", "write_error"}) =>
              /\ config_dirty \/ \E k \in 1..Len(pushes') : pushes'[k].accepted
              /\ now - last_config_save >= config.config_save_interval
        /\ ret'.env = "ok" =>
              /\ ~config_dirty'
              /\ last_config_save' = now
        /\ ret'.env # "ok" => last_config_save' = last_config_save]_vars

\* a second change is pending after a periodic save, inside the interval:
\* the iteration that made it did not write
C29_Witness ==
    /\ ret.op = "tick" /\ ret.env = "none"
    /\ config_dirty /\ store # None /\ store # Damaged
    /\ last_config_save >= Epoch
    /\ now - last_config_save < config.config_save_interval
    /\ video_config # None
    /\ store[1].video_bitrate # None
    /\ store[1].video_bitrate # Some(video_config[1].bitrate)

----------------------------------------------------------------------------
(* Further claims about the bitrate policy, under SpecBitrate *)

\* C23: an iteration whose bitrate push fails leaves AdaptiveState as the
\* sampling left it: current_video_bitrate is the sampled one, the counters
\* of increases and decreases and last_adjustment_time are those before the
\* iteration, the stability counter is the one before the iteration (or one
\* more, counted before the push), and a clear dirty flag stays clear.
C23_FailedPushNoChange ==
    [][(/\ ticks' = ticks + 1
        /\ \E k \in 1..Len(pushes') :
               pushes'[k].kind = "video" /\ ~pushes'[k].accepted) =>
        /\ state'.current_video_bitrate = sampled'.current_video_bitrate
        /\ state'.total_bitrate_increases = state.total_bitrate_increases
        /\ state'.total_bitrate_decreases = state.total_bitrate_decreases
        /\ state'.last_adjustment_time = state.last_adjustment_time
        /\ state'.stable_periods \in {state.stable_periods, state.stable_periods + 1}
        /\ ~config_dirty => ~config_dirty']_vars

\* C30: after every iteration of the bitrate policy that sampled a packet
\* loss at or above packet_loss_threshold_low the stability counter is 0; and
\* an increase is pushed, with a stability window of more than one iteration,
\* only if the iteration before sampled a loss below the low threshold.
C30_CounterReset ==
    [][(/\ ticks' = ticks + 1
        /\ config.adaptive_bitrate_enabled
        /\ inputs'.stats # None) =>
        /\ sampled'.current_packet_loss >= config.packet_loss_threshold_low =>
               state'.stable_periods = 0
        /\ (/\ state'.total_bitrate_increases > state.total_bitrate_increases
            /\ config.stable_periods_before_increase > 1
            /\ ret.op = "tick" /\ inputs.stats # None) =>
               sampled.current_packet_loss < config.packet_loss_threshold_low]_vars

----------------------------------------------------------------------------
(* Claims about the control loop's threads, under SpecLoop *)

\* C21: AdaptiveController.start() returns False and spawns no loop thread
\* when a control loop is running or the configuration has enabled = False;
\* otherwise it returns True and one loop thread more is alive, the only one.
C21_StartSpawnsOne ==
    [][(ret'.op = "ctl_start" /\ ret' # ret) =>
        IF loops.wait + loops.body > 0 \/ ~config.enabled
        THEN ret'.val = "False" /\ loops' = loops
        ELSE ret'.val = "True" /\ loops'.wait + loops'.body = 1]_vars

\* C24: at most one loop thread is inside the body of the control loop, over
\* every sequence of start() and stop(), a stop() whose join timed out
\* included.
C24_NoOverlap == loops.body <= 1

----------------------------------------------------------------------------
(* Claims about iterations that raise, under SpecFaults *)

\* C22: an iteration in which a call raises leaves the loop thread alive and
\* the stop event as it was; and after such an iteration, as long as stop
\* has not been requested, the loop thread can run its next iteration
\* (within the iterations explored).
C22_LoopSurvives ==
    /\ [][(ticks' = ticks + 1 /\ ret'.val = "raise") =>
              /\ control_thread' = "alive" /\ loops' = loops
              /\ stop_event' = stop_event]_vars
    /\ []((/\ ret.op = "tick" /\ ret.val = "raise"
           /\ ~stop_event /\ ticks < MaxTicks) => ENABLED LoopRuns)

\* the second iteration has raised, the loop thread is alive and waiting
C22_Witness ==
    /\ ticks = 2 /\ ret = Ret("tick", "raise", "none")
    /\ control_thread = "alive" /\ ~stop_event
    /\ loops = [wait |-> 1, body |-> 0]
    /\ state_callback /\ callbacks = 0

\* C26: with a state callback registered, every iteration of the control
\* loop calls it exactly once, iterations in which a call raises included.
C26_CallbackEveryTick ==
    [][(ticks' = ticks + 1 /\ state_callback) => callbacks' = 1]_vars

----------------------------------------------------------------------------
(* Claims about the error monitor, under Spec *)

\* C27: when the error monitor has processed a line, last_error is the
\* message of that line if the line classifies to an error, and is what it
\* was before if the line classifies to nothing; so after any sequence of
\* lines it is the message of the most recent classified one.
C27_StickyLastError ==
    [][(/\ ret'.op = "monitor" /\ ret'.arg \in 1..Len(GstLines)
        /\ (ret' # ret \/ last_error' # last_error)) =>
        last_error' = IF GstErrors[ret'.arg] # None
                      THEN GstErrors[ret'.arg] ELSE last_error]_vars

\* an unclassified line read after the end of stream was reported
C27_Witness ==
    /\ ret.op = "monitor" /\ ret.arg \in 1..Len(GstLines)
    /\ GstLines[ret.arg] = "info"
    /\ process = "alive" /\ is_streaming
    /\ last_error = Some("RIST Stream unerwartet beendet")

----------------------------------------------------------------------------
(* Claims about the classification of a line, under SpecParse *)

----------------------------------------------------------------------------
(* Further claims about the link policy, under SpecLinks *)

\* C31: in one iteration the link policy pushes at most one link list; it
\* pushes one exactly when the enabled flag it wants for some link differs
\* from the flag the link has; and total_link_disables and
\* total_link_enables grow by the number of links whose flag goes from
\* enabled to disabled and from disabled to enabled in that iteration.
C31_BatchedPush ==
    [][(/\ ticks' = ticks + 1
        /\ config.adaptive_links_enabled /\ has_monitor
        /\ rist_config # None) =>
        LET old == rist_config[1].links
            new == rist_config'[1].links
            linkPushes == {k \in 1..Len(pushes') : pushes'[k].kind = "links"}
            desired == LinkPass(old, inputs'.reports, config,
                                [new_links |-> <<>>, disables |-> 0,
                                 enables |-> 0, needs_update |-> FALSE]).new_links
            off == {i \in 1..Len(old) : old[i].enabled /\ ~new[i].enabled}
            on == {i \in 1..Len(old) : ~old[i].enabled /\ new[i].enabled}
        IN /\ Cardinality(linkPushes) <= 1
           /\ linkPushes # {} <=> desired # old
           /\ state'.total_link_disables =
                  state.total_link_disables + Cardinality(off)
           /\ state'.total_link_enables =
                  state.total_link_enables + Cardinality(on)]_vars

----------------------------------------------------------------------------
(* Claims about the sampling of link quality, under SpecModem *)

\* C32: after a link-quality sample, the members of active_links are exactly
\* the modems reported connected with a signal at or above
\* link_enable_signal_threshold, the members of disabled_links are exactly
\* the other modems with a signal below link_disable_signal_threshold, the
\* two have no member in common whatever the thresholds, and a list is
\* replaced only when its set of members changed.
C32_LinkSets ==
    [][(ret'.op = "sample") =>
        LET reports == inputs'.reports
            Up == {j \in 1..Len(reports) :
                      /\ reports[j].status.connected
                      /\ reports[j].status.signal_strength >=
                             config.link_enable_signal_threshold}
            Down == {j \in 1..Len(reports) :
                        /\ j \notin Up
                        /\ reports[j].status.signal_strength <
                               config.link_disable_signal_threshold}
        IN /\ ToSet(state'.active_links) = {reports[j].id : j \in Up}
           /\ ToSet(state'.disabled_links) = {reports[j].id : j \in Down}
           /\ ToSet(state'.active_links) \cap ToSet(state'.disabled_links) = {}
           /\ state'.active_links # state.active_links =>
                  ToSet(state'.active_links) # ToSet(state.active_links)
           /\ state'.disabled_links # state.disabled_links =>
                  ToSet(state'.disabled_links) # ToSet(state.disabled_links)]_vars

\* with crossed thresholds, a connected modem whose signal lies between them
\* is active and not disabled, reported after a modem that is neither
C32_Witness ==
    /\ ret.op = "sample"
    /\ config.link_enable_signal_threshold < config.link_disable_signal_threshold
    /\ inputs.reports = <<[id |-> 2, status |-> Reading(FALSE, 60)],
                          [id |-> 1, status |-> Reading(TRUE, 30)]>>
    /\ state.active_links = <<1>>
    /\ state.disabled_links = <<>>

----------------------------------------------------------------------------
(* Claims about the gates of the bitrate policy, under SpecGate *)

\* C33: an iteration in which adaptive_bitrate_enabled is false or the
\* current video bitrate is 0 pushes no bitrate and leaves the stability
\* counter, total_bitrate_increases, total_bitrate_decreases and
\* last_adjustment_time as they were; an iteration with immediate_decrease
\* false pushes no lower bitrate and does not lower the manager's bitrate.
C33_Gated ==
    [][(ticks' = ticks + 1) =>
        /\ (\/ ~config.adaptive_bitrate_enabled
            \/ sampled'.current_video_bitrate = 0) =>
               /\ \A k \in 1..Len(pushes') : pushes'[k].kind # "video"
               /\ video_config' = video_config
               /\ state'.stable_periods = state.stable_periods
               /\ state'.total_bitrate_increases = state.total_bitrate_increases
               /\ state'.total_bitrate_decreases = state.total_bitrate_decreases
               /\ state'.last_adjustment_time = state.last_adjustment_time
        /\ ~config.immediate_decrease =>
               /\ \A k \in 1..Len(pushes') :
                      pushes'[k].kind = "video" =>
                          pushes'[k].bitrate > sampled'.current_video_bitrate
               /\ state'.total_bitrate_decreases = state.total_bitrate_decreases
               /\ video_config # None =>
                      video_config'[1].bitrate >= video_config[1].bitrate]_vars

\* an iteration with 7 % loss has run with the policy off, after a decrease
\* to 1700000 bit/s made while it was on
C33_Witness ==
    /\ ret.op = "tick" /\ inputs.stats # None
    /\ sampled.current_packet_loss > config.packet_loss_threshold_high
    /\ sampled.current_video_bitrate = 1700000
    /\ state.total_bitrate_decreases = 1
    /\ ~config.adaptive_bitrate_enabled
    /\ pushes = <<>>

----------------------------------------------------------------------------
(* Claims about what a push carries, under SpecPush *)

\* C38: the video configuration an iteration pushes for a bitrate change
\* equals the current one in codec, width, height, framerate and keyframe
\* interval, and the transport configuration it pushes for a link change
\* keeps every link's address, port and weight, the order of the links, the
\* bonding method and the buffer, RTT, FEC and retry parameters (seen in the
\* manager's configuration after an accepted push).
C38_PushFrame ==
    [][(ticks' = ticks + 1) =>
        \A k \in 1..Len(pushes') :
            /\ (pushes'[k].kind = "video" /\ pushes'[k].accepted) =>
                   LET old == video_config[1]
                       new == video_config'[1]
                   IN /\ new.codec = old.codec
                      /\ new.width = old.width /\ new.height = old.height
                      /\ new.framerate = old.framerate
                      /\ new.keyframe_interval = old.keyframe_interval
            /\ (pushes'[k].kind = "links" /\ pushes'[k].accepted) =>
                   LET old == rist_config[1]
                       new == rist_config'[1]
                   IN /\ Len(new.links) = Len(old.links)
                      /\ \A i \in 1..Len(old.links) :
                             /\ new.links[i].address = old.links[i].address
                             /\ new.links[i].port = old.links[i].port
                             /\ new.links[i].weight = old.links[i].weight
                      /\ new.bonding_method = old.bonding_method
                      /\ new.sender_buffer = old.sender_buffer
                      /\ new.receiver_buffer = old.receiver_buffer
                      /\ new.reorder_buffer = old.reorder_buffer
                      /\ new.rtt_min = old.rtt_min /\ new.rtt_max = old.rtt_max
                      /\ new.fec_rows = old.fec_rows
                      /\ new.fec_columns = old.fec_columns
                      /\ new.max_retries = old.max_retries]_vars

----------------------------------------------------------------------------
(* Claims about the transport sink, under SpecSink *)

\* C34: the transport sink of the command start() launches addresses only
\* enabled links: with one link configured it addresses that link directly,
\* with several it lists every enabled link and no disabled one together
\* with the bonding method; it never has an empty endpoint list and never
\* the endpoint of a disabled link.
C34_SinkEndpoints ==
    [][(ret'.op = "start" /\ ret'.env # "none") =>
        LET sink == ret'.arg
            links == rist_config[1].links
            EndpointOf(l) == [address |-> l.address, port |-> l.port]
        IN /\ sink.endpoints # <<>>
           /\ \A i \in 1..Len(sink.endpoints) :
                  \E j \in 1..Len(links) :
                      links[j].enabled /\ sink.endpoints[i] = EndpointOf(links[j])
           /\ Len(links) = 1 =>
                  /\ sink.endpoints = <<EndpointOf(links[1])>>
                  /\ sink.bonding_method = None
           /\ Len(links) > 1 =>
                  /\ sink.endpoints = EnabledEndpoints(links)
                  /\ sink.bonding_method = Some(rist_config[1].bonding_method)]_vars

----------------------------------------------------------------------------
(* Claims about shared objects, under SpecAlias and SpecState *)

\* C35: configuration is copied in: after configure(transport, video, audio)
\* an assignment by the caller to the objects it passed leaves the manager's
\* stored configuration as it was, and update_bitrate() or an iteration of
\* the control loop leaves the caller's objects as they were.
C35_CopiedIn ==
    [][/\ ret'.op = "caller" =>
           rist_config' = rist_config /\ video_config' = video_config
       /\ ret'.op \in {"update_bitrate", "tick"} =>
           /\ ValueOf(handed_in'.rist, rist_config') =
                  ValueOf(handed_in.rist, rist_config)
           /\ ValueOf(handed_in'.video, video_config') =
                  ValueOf(handed_in.video, video_config)]_vars


\* C36: the AdaptiveState handed to a caller by get_state() or to the state
\* callback is a snapshot: its fields stay as they are when later iterations
\* run, and an assignment by the caller to it leaves the controller's own
\* state as it was.
C36_Snapshot ==
    [][/\ (ticks' = ticks + 1 /\ HandedOut # None) => HandedOut' = HandedOut
       /\ ret'.op = "caller" => state' = state]_vars

----------------------------------------------------------------------------
(* Further claims about the control loop's threads, under SpecLoop *)

\* C37: stop() of the controller is cooperative and ordered: once the stop
\* event is set no iteration begins, and once stop() has returned (the
\* thread handle is dropped and the event still set) the loop completes no
\* iteration, makes no push and leaves the dirty flag alone, the final save
\* of stop() coming after the loop's last iteration.
C37_OrderedStop ==
    [][/\ stop_event => loops'.body <= loops.body
       /\ (stop_event /\ control_thread = "None") =>
              /\ ticks' = ticks
              /\ pushes' = pushes
              /\ config_dirty' = config_dirty]_vars

----------------------------------------------------------------------------
(* Claims about sessions that can be ended, under Spec *)

\* C39: no session is stuck: in every reachable state in which the streaming
\* flag is set, stop() leaves the flag cleared and the process handle None,
\* also when the process has ended by itself, and in every reachable state
\* the calls stop(), configure(), start() launch a new process (the launch
\* itself succeeding).
C39_NoStuckSession ==
    LET stopped == stop(Mgr).m
        configured == IF stopped.is_streaming THEN stopped  \* configure raises
                      ELSE [stopped EXCEPT !.rist_config = Some(AllEnabled)]
        started == start(configured, "alive")
    IN /\ is_streaming => (~stopped.is_streaming /\ stopped.process = "None")
       /\ started.val = "True" /\ started.m.process = "alive"

----------------------------------------------------------------------------
(* Claims about the monitor threads, under SpecMonitor *)

\* C40: at most one thread runs _monitor_stderr at a time, and the monitor
\* thread of a session that stop() has ended does not write last_error (nor
\* call the error callback, which line 214 does on the same condition) once
\* stop() has returned or a later start() has begun, whatever the
\* interleaving of the monitor thread with stop() and start().
C40_MonitorConfined ==
    [][/\ ActiveMonitors' <= 1
       /\ (ret'.op = "monitor" /\ ret'.env = "stopped") =>
              last_error' = last_error]_vars

====
